---- MODULE Spec2Model ----
(***************************************************************************)
(* opspec static verifier (src/src/verifier.ts, src/src/ast-utils.ts).     *)
(*                                                                         *)
(* Text is modelled as a sequence of chunks (short strings).  A chunk is a *)
(* run of characters; every search string ("needle") the verifier uses is  *)
(* written as a whole number of chunks, and identifiers of the modelled    *)
(* sources are cut at the places a needle could begin or end inside them   *)
(* (encodeSelector is <<"encode", "Selector">>), so that a substring       *)
(* search over chunks finds what String.includes finds over characters.    *)
(***************************************************************************)
EXTENDS Integers, Sequences, FiniteSets, TLC

VARIABLES sourceFile, contract, results, report, pc, specTree, reports, exitCode,
          unassociated, coverage

vars ==
    <<sourceFile, contract, results, report, pc, specTree, reports, exitCode, unassociated,
      coverage>>

-----------------------------------------------------------------------------
(* Bounds of the model.                                                    *)

MaxStmts == 2

MaxContracts == 2

-----------------------------------------------------------------------------
(* String primitives of JavaScript, over chunk sequences.                  *)

RECURSIVE Flatten(_)
Flatten(ss) == IF ss = <<>> THEN <<>> ELSE Head(ss) \o Flatten(Tail(ss))

RECURSIVE CharLen(_)
CharLen(t) == IF t = <<>> THEN 0 ELSE Len(Head(t)) + CharLen(Tail(t))

StartsWith(t, p) == Len(p) <= Len(t) /\ SubSeq(t, 1, Len(p)) = p

EndsWith(t, s) == Len(s) <= Len(t) /\ SubSeq(t, Len(t) - Len(s) + 1, Len(t)) = s

\* whether needle occurs in t at chunk i
OccursAt(t, i, needle) ==
    i + Len(needle) - 1 <= Len(t) /\ SubSeq(t, i, i + Len(needle) - 1) = needle

\* String.prototype.includes
Includes(t, needle) == \E i \in 1..Len(t) : OccursAt(t, i, needle)

IsSpace(c) == c \in {" ", "\n"}

RECURSIVE TrimLeft(_)
TrimLeft(t) == IF t # <<>> /\ IsSpace(Head(t)) THEN TrimLeft(Tail(t)) ELSE t

RECURSIVE TrimRight(_)
TrimRight(t) ==
    IF t # <<>> /\ IsSpace(t[Len(t)]) THEN TrimRight(SubSeq(t, 1, Len(t) - 1)) ELSE t

\* String.prototype.trim
Trim(t) == TrimRight(TrimLeft(t))

\* text.replace(/^prefix/, '')
DropPrefix(t, p) == IF StartsWith(t, p) THEN SubSeq(t, Len(p) + 1, Len(t)) ELSE t

\* text.replace(/suffix$/, '')
DropSuffix(t, s) == IF EndsWith(t, s) THEN SubSeq(t, 1, Len(t) - Len(s)) ELSE t

\* text.replace(c, '') with a string pattern: the first occurrence only
RECURSIVE RemoveFirst(_, _)
RemoveFirst(t, c) ==
    IF t = <<>> THEN <<>>
    ELSE IF Head(t) = c THEN Tail(t)
    ELSE <<Head(t)>> \o RemoveFirst(Tail(t), c)

\* text.split(/\s+/): the maximal runs of non-space chunks; JavaScript also
\* yields an empty string at a leading or trailing separator, which the
\* callers' length filter drops, as it drops every empty run here.
RECURSIVE SplitSpace(_, _)
SplitSpace(t, cur) ==
    IF t = <<>> THEN <<cur>>
    ELSE IF IsSpace(Head(t)) THEN <<cur>> \o SplitSpace(Tail(t), <<>>)
    ELSE SplitSpace(Tail(t), Append(cur, Head(t)))

\* text.split(sep) for a one-character separator: the pieces between the
\* separators, empty pieces included
RECURSIVE SplitOn(_, _, _)
SplitOn(t, sep, cur) ==
    IF t = <<>> THEN <<cur>>
    ELSE IF Head(t) = sep THEN <<cur>> \o SplitOn(Tail(t), sep, <<>>)
    ELSE SplitOn(Tail(t), sep, Append(cur, Head(t)))

\* the string a text spells (an identifier, used as a key)
RECURSIVE Join(_)
Join(t) == IF t = <<>> THEN "" ELSE Head(t) \o Join(Tail(t))

Range(s) == {s[i] : i \in 1..Len(s)}

\* String.prototype.toLowerCase on the chunks that carry capitals
toLowerCase1(c) ==
    CASE c = "ACTIVE" -> "active"
      [] c = "Active" -> "active"
      [] c = "Address" -> "address"
      [] c = "Allowance" -> "allowance"
      [] c = "Amount" -> "amount"
      [] c = "Approve" -> "approve"
      [] c = "Blockchain" -> "blockchain"
      [] c = "Boolean" -> "boolean"
      [] c = "Broken" -> "broken"
      [] c = "Bytes" -> "bytes"
      [] c = "CEI" -> "cei"
      [] c = "Call" -> "call"
      [] c = "Calldata" -> "calldata"
      [] c = "Cell" -> "cell"
      [] c = "Contract" -> "contract"
      [] c = "DESTINATION" -> "destination"
      [] c = "Deployer" -> "deployer"
      [] c = "EMPTY" -> "empty"
      [] c = "FEE" -> "fee"
      [] c = "Fee" -> "fee"
      [] c = "From" -> "from"
      [] c = "GRADUATED" -> "graduated"
      [] c = "Id" -> "id"
      [] c = "Insufficient" -> "insufficient"
      [] c = "Listing" -> "listing"
      [] c = "MAX" -> "max"
      [] c = "Map" -> "map"
      [] c = "Math" -> "math"
      [] c = "Missing" -> "missing"
      [] c = "NET" -> "net"
      [] c = "No" -> "no"
      [] c = "OP" -> "op"
      [] c = "Only" -> "only"
      [] c = "Owner" -> "owner"
      [] c = "POINTER" -> "pointer"
      [] c = "PRE" -> "pre"
      [] c = "Pointer" -> "pointer"
      [] c = "Price" -> "price"
      [] c = "Result" -> "result"
      [] c = "Revert" -> "revert"
      [] c = "SALE" -> "sale"
      [] c = "STATUS" -> "status"
      [] c = "SUPPLY" -> "supply"
      [] c = "Safe" -> "safe"
      [] c = "Selector" -> "selector"
      [] c = "Stored" -> "stored"
      [] c = "String" -> "string"
      [] c = "Supply" -> "supply"
      [] c = "TRIGGERED" -> "triggered"
      [] c = "Transfer" -> "transfer"
      [] c = "Treasury" -> "treasury"
      [] c = "U" -> "u"
      [] c = "UNINITIALIZED" -> "uninitialized"
      [] c = "Vault" -> "vault"
      [] c = "Writer" -> "writer"
      [] c = "Zero" -> "zero"
      [] OTHER -> c

toLowerCase(t) == [i \in 1..Len(t) |-> toLowerCase1(t[i])]

-----------------------------------------------------------------------------
(* stripComments (verifier.ts): two regular-expression passes.             *)

\* text.replace(/\/\/.*$/gm, ''): from each "//" to the end of its line; a
\* chunk goes when a "//" precedes it with no line break in between
StripLineComments(t) ==
    LET inComment(i) == \E j \in 1..i : t[j] = "//" /\ \A k \in j..i : t[k] # "\n"
        kept == SelectSeq([i \in 1..Len(t) |-> i], LAMBDA i : ~inComment(i))
    IN  [k \in 1..Len(kept) |-> t[kept[k]]]

\* text.replace(/\/\*[\s\S]*?\*\//g, ''): from the first "/*" that has a
\* "*/" after it to the nearest such "*/", and so on in the rest
RECURSIVE StripBlockComments(_)
StripBlockComments(t) ==
    LET opens == {i \in 1..Len(t) : t[i] = "/*" /\ \E j \in (i + 1)..Len(t) : t[j] = "*/"}
    IN  IF opens = {} THEN t
        ELSE LET i == CHOOSE k \in opens : \A l \in opens : k <= l
                 j == CHOOSE k \in (i + 1)..Len(t) :
                          t[k] = "*/" /\ \A l \in (i + 1)..(k - 1) : t[l] # "*/"
             IN  SubSeq(t, 1, i - 1) \o StripBlockComments(SubSeq(t, j + 1, Len(t)))

stripComments(text) == StripBlockComments(StripLineComments(text))

-----------------------------------------------------------------------------
(* Regular-expression scans over chunks.                                   *)

NonWord ==
    {" ", "\n", ".", ",", ";", ":", "(", ")", "{", "}", "[", "]", "!", "=", "<", ">",
     "+", "-", "*", "/", "'", "\"", "//", "/*", "*/", "&", "|", "?", "@"}

\* a chunk of \w characters
IsWord(c) == c \notin NonWord

\* the end of the longest run of word chunks of t that starts at i
RECURSIVE WordRunEnd(_, _)
WordRunEnd(t, i) ==
    IF i + 1 <= Len(t) /\ IsWord(t[i + 1]) THEN WordRunEnd(t, i + 1) ELSE i

\* the matches of /this\.(\w+)<suffix>/g in t from chunk i on, each with its
\* captured name
RECURSIVE ThisMatches(_, _, _)
ThisMatches(t, i, suffix) ==
    IF i + 2 > Len(t) THEN <<>>
    ELSE IF t[i] = "this" /\ t[i + 1] = "." /\ IsWord(t[i + 2])
         THEN LET k == WordRunEnd(t, i + 2)
                  e == k + Len(suffix)
              IN  IF e <= Len(t) /\ SubSeq(t, k + 1, e) = suffix
                  THEN <<SubSeq(t, i + 2, k)>> \o ThisMatches(t, e + 1, suffix)
                  ELSE ThisMatches(t, i + 1, suffix)
         ELSE ThisMatches(t, i + 1, suffix)

\* [...new Set(refs)]: the first occurrence of each element, in order
RECURSIVE Dedupe(_)
Dedupe(s) ==
    IF s = <<>> THEN <<>>
    ELSE LET r == Dedupe(SubSeq(s, 1, Len(s) - 1))
         IN  IF s[Len(s)] \in Range(r) THEN r ELSE Append(r, s[Len(s)])

-----------------------------------------------------------------------------
(* Source texts: statements of method bodies, with the nodes of their      *)
(* syntax trees (type, operator, callee or left-hand text, offset of the   *)
(* node's start in the statement), and property declarations.              *)

Stmt ==
    \* this.onlyDeployer(Blockchain.tx.sender);
    [ OnlyDeployer |->
          [kind |-> "expr",
           text |-> <<"this", ".", "only", "Deployer", "(", "Blockchain", ".", "tx", ".",
              "sender", ")", ";">>,
           cond |-> <<>>,
           then |-> <<>>,
           nodes |-> <<[type |-> "call", op |-> "", head |-> <<"this", ".", "only",
              "Deployer">>, off |-> 0]>>],
    \* this.ensureOwner();
      EnsureOwner |->
          [kind |-> "expr",
           text |-> <<"this", ".", "ensure", "Owner", "(", ")", ";">>,
           cond |-> <<>>,
           then |-> <<>>,
           nodes |-> <<[type |-> "call", op |-> "", head |-> <<"this", ".", "ensure",
              "Owner">>, off |-> 0]>>],
    \* this.ensureActive();
      EnsureActive |->
          [kind |-> "expr",
           text |-> <<"this", ".", "ensure", "Active", "(", ")", ";">>,
           cond |-> <<>>,
           then |-> <<>>,
           nodes |-> <<[type |-> "call", op |-> "", head |-> <<"this", ".", "ensure",
              "Active">>, off |-> 0]>>],
    \* this.onlyOwner();
      OnlyOwner |->
          [kind |-> "expr",
           text |-> <<"this", ".", "only", "Owner", "(", ")", ";">>,
           cond |-> <<>>,
           then |-> <<>>,
           nodes |-> <<[type |-> "call", op |-> "", head |-> <<"this", ".", "only", "Owner">>,
              off |-> 0]>>],
    \* this.requireActiveListing(listingId);
      RequireActiveListing |->
          [kind |-> "expr",
           text |-> <<"this", ".", "require", "Active", "Listing", "(", "listing", "Id", ")",
              ";">>,
           cond |-> <<>>,
           then |-> <<>>,
           nodes |-> <<[type |-> "call", op |-> "", head |-> <<"this", ".", "require",
              "Active", "Listing">>, off |-> 0]>>],
    \* if (!Blockchain.tx.sender.equals(this.owner.value)) { throw new Revert('Only owner can cal...
      IfNotOwner |->
          [kind |-> "if",
           text |-> <<"if", " ", "(", "!", "Blockchain", ".", "tx", ".", "sender", ".",
              "equals", "(", "this", ".", "owner", ".", "value", ")", ")", " ", "{", " ",
              "throw", " ", "new", " ", "Revert", "(", "'", "Only", " ", "owner", " ", "can",
              " ", "call", " ", "this", " ", "method", "'", ")", ";", " ", "}">>,
           cond |-> <<"!", "Blockchain", ".", "tx", ".", "sender", ".", "equals", "(", "this",
              ".", "owner", ".", "value", ")">>,
           then |-> <<"{", " ", "throw", " ", "new", " ", "Revert", "(", "'", "Only", " ",
              "owner", " ", "can", " ", "call", " ", "this", " ", "method", "'", ")", ";", " ",
              "}">>,
           nodes |-> <<[type |-> "call", op |-> "", head |-> <<"Blockchain", ".", "tx", ".",
              "sender", ".", "equals">>, off |-> 4]>>],
    \* const sender: Address = Blockchain.tx.sender;
      Sender |->
          [kind |-> "var",
           text |-> <<"const", " ", "sender", ":", " ", "Address", " ", "=", " ", "Blockchain",
              ".", "tx", ".", "sender", ";">>,
           cond |-> <<>>,
           then |-> <<>>,
           nodes |-> <<>>],
    \* // Missing: this.onlyDeployer(Blockchain.tx.sender);
      CommentMissing |->
          [kind |-> "trivia",
           text |-> <<"//", " ", "Missing", ":", " ", "this", ".", "only", "Deployer", "(",
              "Blockchain", ".", "tx", ".", "sender", ")", ";">>,
           cond |-> <<>>,
           then |-> <<>>,
           nodes |-> <<>>],
    \* // No access control - verifier confirms no onlyDeployer/ensureOwner calls
      CommentNoAccess |->
          [kind |-> "trivia",
           text |-> <<"//", " ", "No", " ", "access", " ", "control", " ", "-", " ",
              "verifier", " ", "confirms", " ", "no", " ", "only", "Deployer", "/", "ensure",
              "Owner", " ", "calls">>,
           cond |-> <<>>,
           then |-> <<>>,
           nodes |-> <<>>],
    \* /* owner check moved to ensureOwner() */
      CommentBlock |->
          [kind |-> "trivia",
           text |-> <<"/*", " ", "owner", " ", "check", " ", "moved", " ", "to", " ", "ensure",
              "Owner", "(", ")", " ", "*/">>,
           cond |-> <<>>,
           then |-> <<>>,
           nodes |-> <<>>],
    \* this.fee.value = newFee;
      WriteFee |->
          [kind |-> "expr",
           text |-> <<"this", ".", "fee", ".", "value", " ", "=", " ", "new", "Fee", ";">>,
           cond |-> <<>>,
           then |-> <<>>,
           nodes |-> <<[type |-> "assign", op |-> "=", head |-> <<"this", ".", "fee", ".",
              "value">>, off |-> 0]>>],
    \* if (amount.isZero()) { throw new Revert('Amount must be non-zero'); }
      IfZero |->
          [kind |-> "if",
           text |-> <<"if", " ", "(", "amount", ".", "is", "Zero", "(", ")", ")", " ", "{",
              " ", "throw", " ", "new", " ", "Revert", "(", "'", "Amount", " ", "must", " ",
              "be", " ", "non", "-", "zero", "'", ")", ";", " ", "}">>,
           cond |-> <<"amount", ".", "is", "Zero", "(", ")">>,
           then |-> <<"{", " ", "throw", " ", "new", " ", "Revert", "(", "'", "Amount", " ",
              "must", " ", "be", " ", "non", "-", "zero", "'", ")", ";", " ", "}">>,
           nodes |-> <<[type |-> "call", op |-> "", head |-> <<"amount", ".", "is", "Zero">>,
              off |-> 3]>>],
    \* if (this.balance.value < amount) { throw new Revert('Insufficient balance'); }
      IfInsufficient |->
          [kind |-> "if",
           text |-> <<"if", " ", "(", "this", ".", "balance", ".", "value", " ", "<", " ",
              "amount", ")", " ", "{", " ", "throw", " ", "new", " ", "Revert", "(", "'",
              "Insufficient", " ", "balance", "'", ")", ";", " ", "}">>,
           cond |-> <<"this", ".", "balance", ".", "value", " ", "<", " ", "amount">>,
           then |-> <<"{", " ", "throw", " ", "new", " ", "Revert", "(", "'", "Insufficient",
              " ", "balance", "'", ")", ";", " ", "}">>,
           nodes |-> <<[type |-> "binary", op |-> "<", head |-> <<"this", ".", "balance", ".",
              "value">>, off |-> 3]>>],
    \* const result: CallResult = Blockchain.call(this.tokenAddress.value, transferCalldata);
      VarCall |->
          [kind |-> "var",
           text |-> <<"const", " ", "result", ":", " ", "Call", "Result", " ", "=", " ",
              "Blockchain", ".", "call", "(", "this", ".", "token", "Address", ".", "value",
              ",", " ", "transfer", "Calldata", ")", ";">>,
           cond |-> <<>>,
           then |-> <<>>,
           nodes |-> <<[type |-> "call", op |-> "", head |-> <<"Blockchain", ".", "call">>,
              off |-> 10]>>],
    \* if (this.fee.value > limit) { throw new Revert('Fee too high'); }
      IfFeeHigh |->
          [kind |-> "if",
           text |-> <<"if", " ", "(", "this", ".", "fee", ".", "value", " ", ">", " ", "limit",
              ")", " ", "{", " ", "throw", " ", "new", " ", "Revert", "(", "'", "Fee", " ",
              "too", " ", "high", "'", ")", ";", " ", "}">>,
           cond |-> <<"this", ".", "fee", ".", "value", " ", ">", " ", "limit">>,
           then |-> <<"{", " ", "throw", " ", "new", " ", "Revert", "(", "'", "Fee", " ",
              "too", " ", "high", "'", ")", ";", " ", "}">>,
           nodes |-> <<[type |-> "binary", op |-> ">", head |-> <<"this", ".", "fee", ".",
              "value">>, off |-> 3]>>],
    \* if (!result.success) { throw new Revert('Transfer failed'); }
      IfNotSuccess |->
          [kind |-> "if",
           text |-> <<"if", " ", "(", "!", "result", ".", "success", ")", " ", "{", " ",
              "throw", " ", "new", " ", "Revert", "(", "'", "Transfer", " ", "failed", "'",
              ")", ";", " ", "}">>,
           cond |-> <<"!", "result", ".", "success">>,
           then |-> <<"{", " ", "throw", " ", "new", " ", "Revert", "(", "'", "Transfer", " ",
              "failed", "'", ")", ";", " ", "}">>,
           nodes |-> <<>>],
    \* Blockchain.call(this.tokenAddress.value, transferCalldata);
      Call |->
          [kind |-> "expr",
           text |-> <<"Blockchain", ".", "call", "(", "this", ".", "token", "Address", ".",
              "value", ",", " ", "transfer", "Calldata", ")", ";">>,
           cond |-> <<>>,
           then |-> <<>>,
           nodes |-> <<[type |-> "call", op |-> "", head |-> <<"Blockchain", ".", "call">>,
              off |-> 0]>>],
    \* Blockchain.call(this.tokenAddress.value, data);
      CallData |->
          [kind |-> "expr",
           text |-> <<"Blockchain", ".", "call", "(", "this", ".", "token", "Address", ".",
              "value", ",", " ", "data", ")", ";">>,
           cond |-> <<>>,
           then |-> <<>>,
           nodes |-> <<[type |-> "call", op |-> "", head |-> <<"Blockchain", ".", "call">>,
              off |-> 0]>>],
    \* transferCalldata.writeSelector(encodeSelector('transferFrom'));
      Selector |->
          [kind |-> "expr",
           text |-> <<"transfer", "Calldata", ".", "write", "Selector", "(", "encode",
              "Selector", "(", "'", "transfer", "From", "'", ")", ")", ";">>,
           cond |-> <<>>,
           then |-> <<>>,
           nodes |-> <<[type |-> "call", op |-> "", head |-> <<"transfer", "Calldata", ".",
              "write", "Selector">>, off |-> 0],
                      [type |-> "call", op |-> "", head |-> <<"encode", "Selector">>,
              off |-> 6]>>],
    \* this.balance.value = SafeMath.add(this.balance.value, amount);
      WriteBalance |->
          [kind |-> "expr",
           text |-> <<"this", ".", "balance", ".", "value", " ", "=", " ", "Safe", "Math", ".",
              "add", "(", "this", ".", "balance", ".", "value", ",", " ", "amount", ")", ";">>,
           cond |-> <<>>,
           then |-> <<>>,
           nodes |-> <<[type |-> "assign", op |-> "=", head |-> <<"this", ".", "balance", ".",
              "value">>, off |-> 0],
                      [type |-> "call", op |-> "", head |-> <<"Safe", "Math", ".", "add">>,
              off |-> 8]>>],
    \* this.balance.value += amount;
      AddBalance |->
          [kind |-> "expr",
           text |-> <<"this", ".", "balance", ".", "value", " ", "+", "=", " ", "amount", ";">>,
           cond |-> <<>>,
           then |-> <<>>,
           nodes |-> <<[type |-> "assign", op |-> "+=", head |-> <<"this", ".", "balance", ".",
              "value">>, off |-> 0]>>],
    \* this.cache.value = amount;
      WriteCache |->
          [kind |-> "expr",
           text |-> <<"this", ".", "cache", ".", "value", " ", "=", " ", "amount", ";">>,
           cond |-> <<>>,
           then |-> <<>>,
           nodes |-> <<[type |-> "assign", op |-> "=", head |-> <<"this", ".", "cache", ".",
              "value">>, off |-> 0]>>],
    \* this.listingPriceMap.set(listingId, price);
      SetMap |->
          [kind |-> "expr",
           text |-> <<"this", ".", "listing", "Price", "Map", ".", "set", "(", "listing", "Id",
              ",", " ", "price", ")", ";">>,
           cond |-> <<>>,
           then |-> <<>>,
           nodes |-> <<[type |-> "call", op |-> "", head |-> <<"this", ".", "listing", "Price",
              "Map", ".", "set">>, off |-> 0]>>],
    \* writer.writeU256(this.balance.value);
      ReadBalance |->
          [kind |-> "expr",
           text |-> <<"writer", ".", "write", "U", "256", "(", "this", ".", "balance", ".",
              "value", ")", ";">>,
           cond |-> <<>>,
           then |-> <<>>,
           nodes |-> <<[type |-> "call", op |-> "", head |-> <<"writer", ".", "write", "U",
              "256">>, off |-> 0]>>],
    \* writer.writeBoolean(true);
      WriteBoolean |->
          [kind |-> "expr",
           text |-> <<"writer", ".", "write", "Boolean", "(", "true", ")", ";">>,
           cond |-> <<>>,
           then |-> <<>>,
           nodes |-> <<[type |-> "call", op |-> "", head |-> <<"writer", ".", "write",
              "Boolean">>, off |-> 0]>>],
    \* return writer;
      Return |->
          [kind |-> "return",
           text |-> <<"return", " ", "writer", ";">>,
           cond |-> <<>>,
           then |-> <<>>,
           nodes |-> <<>>],
    \* token.approve(spender, amount);
      Approve |->
          [kind |-> "expr",
           text |-> <<"token", ".", "approve", "(", "spender", ",", " ", "amount", ")", ";">>,
           cond |-> <<>>,
           then |-> <<>>,
           nodes |-> <<[type |-> "call", op |-> "", head |-> <<"token", ".", "approve">>,
              off |-> 0]>>],
    \* token.increaseAllowance(spender, amount);
      IncreaseAllowance |->
          [kind |-> "expr",
           text |-> <<"token", ".", "increase", "Allowance", "(", "spender", ",", " ",
              "amount", ")", ";">>,
           cond |-> <<>>,
           then |-> <<>>,
           nodes |-> <<[type |-> "call", op |-> "", head |-> <<"token", ".", "increase",
              "Allowance">>, off |-> 0]>>],
    \* const dest: Address = Address.fromString(raw);
      FromStringOne |->
          [kind |-> "var",
           text |-> <<"const", " ", "dest", ":", " ", "Address", " ", "=", " ", "Address", ".",
              "from", "String", "(", "raw", ")", ";">>,
           cond |-> <<>>,
           then |-> <<>>,
           nodes |-> <<[type |-> "call", op |-> "", head |-> <<"Address", ".", "from",
              "String">>, off |-> 9]>>],
    \* const dest: Address = Address.fromString(raw, network);
      FromStringTwo |->
          [kind |-> "var",
           text |-> <<"const", " ", "dest", ":", " ", "Address", " ", "=", " ", "Address", ".",
              "from", "String", "(", "raw", ",", " ", "network", ")", ";">>,
           cond |-> <<>>,
           then |-> <<>>,
           nodes |-> <<[type |-> "call", op |-> "", head |-> <<"Address", ".", "from",
              "String">>, off |-> 9]>>] ]

Prop ==
    \* private readonly depositSelector: Selector = encodeSelector('deposit');
    [ DepositSelector |->
          [name |-> <<"deposit", "Selector">>,
           type |-> <<"Selector">>,
           init |-> <<"encode", "Selector", "(", "'", "deposit", "'", ")">>,
           text |-> <<"private", " ", "readonly", " ", "deposit", "Selector", ":", " ",
              "Selector", " ", "=", " ", "encode", "Selector", "(", "'", "deposit", "'", ")",
              ";">>],
    \* private readonly balance: StoredU256 = new StoredU256(this.balancePointer, EMPTY_POINTER);
      Balance |->
          [name |-> <<"balance">>,
           type |-> <<"Stored", "U", "256">>,
           init |-> <<"new", " ", "Stored", "U", "256", "(", "this", ".", "balance", "Pointer",
              ",", " ", "EMPTY", "_", "POINTER", ")">>,
           text |-> <<"private", " ", "readonly", " ", "balance", ":", " ", "Stored", "U",
              "256", " ", "=", " ", "new", " ", "Stored", "U", "256", "(", "this", ".",
              "balance", "Pointer", ",", " ", "EMPTY", "_", "POINTER", ")", ";">>],
    \* private readonly fee: StoredU256 = new StoredU256(this.feePointer, EMPTY_POINTER);
      Fee |->
          [name |-> <<"fee">>,
           type |-> <<"Stored", "U", "256">>,
           init |-> <<"new", " ", "Stored", "U", "256", "(", "this", ".", "fee", "Pointer",
              ",", " ", "EMPTY", "_", "POINTER", ")">>,
           text |-> <<"private", " ", "readonly", " ", "fee", ":", " ", "Stored", "U", "256",
              " ", "=", " ", "new", " ", "Stored", "U", "256", "(", "this", ".", "fee",
              "Pointer", ",", " ", "EMPTY", "_", "POINTER", ")", ";">>],
    \* private readonly owner: StoredAddress = new StoredAddress(this.ownerPointer);
      Owner |->
          [name |-> <<"owner">>,
           type |-> <<"Stored", "Address">>,
           init |-> <<"new", " ", "Stored", "Address", "(", "this", ".", "owner", "Pointer",
              ")">>,
           text |-> <<"private", " ", "readonly", " ", "owner", ":", " ", "Stored", "Address",
              " ", "=", " ", "new", " ", "Stored", "Address", "(", "this", ".", "owner",
              "Pointer", ")", ";">>],
    \* private readonly tokenAddress: StoredAddress = new StoredAddress(this.tokenPointer);
      TokenAddress |->
          [name |-> <<"token", "Address">>,
           type |-> <<"Stored", "Address">>,
           init |-> <<"new", " ", "Stored", "Address", "(", "this", ".", "token", "Pointer",
              ")">>,
           text |-> <<"private", " ", "readonly", " ", "token", "Address", ":", " ", "Stored",
              "Address", " ", "=", " ", "new", " ", "Stored", "Address", "(", "this", ".",
              "token", "Pointer", ")", ";">>],
    \* private readonly listingPriceMap: StoredMapU256 = new StoredMapU256(this.listingPricePoint...
      ListingPriceMap |->
          [name |-> <<"listing", "Price", "Map">>,
           type |-> <<"Stored", "Map", "U", "256">>,
           init |-> <<"new", " ", "Stored", "Map", "U", "256", "(", "this", ".", "listing",
              "Price", "Pointer", ")">>,
           text |-> <<"private", " ", "readonly", " ", "listing", "Price", "Map", ":", " ",
              "Stored", "Map", "U", "256", " ", "=", " ", "new", " ", "Stored", "Map", "U",
              "256", "(", "this", ".", "listing", "Price", "Pointer", ")", ";">>],
    \* private cache: Cell = new Cell();
      Cache |->
          [name |-> <<"cache">>,
           type |-> <<"Cell">>,
           init |-> <<"new", " ", "Cell", "(", ")">>,
           text |-> <<"private", " ", "cache", ":", " ", "Cell", " ", "=", " ", "new", " ",
              "Cell", "(", ")", ";">>],
    \* private readonly transferSelector: Selector = 0xa9059cbb;
      HardSelector |->
          [name |-> <<"transfer", "Selector">>,
           type |-> <<"Selector">>,
           init |-> <<"0", "xa9059", "cbb">>,
           text |-> <<"private", " ", "readonly", " ", "transfer", "Selector", ":", " ",
              "Selector", " ", "=", " ", "0", "xa9059", "cbb", ";">>] ]

(* Annotation expressions and their parts.                                 *)

Text ==
    \* this.ensureOwner()
    [ EnsureOwner |->
          <<"this", ".", "ensure", "Owner", "(", ")">>,
    \* this.onlyDeployer(Blockchain.tx.sender)
      OnlyDeployer |->
          <<"this", ".", "only", "Deployer", "(", "Blockchain", ".", "tx", ".", "sender", ")">>,
    \* this.ensureActive()
      EnsureActive |->
          <<"this", ".", "ensure", "Active", "(", ")">>,
    \* this.status.value == STATUS_ACTIVE
      StatusActive |->
          <<"this", ".", "status", ".", "value", " ", "=", "=", " ", "STATUS", "_", "ACTIVE">>,
    \* !calldata.readU256().isZero()
      NotZero |->
          <<"!", "calldata", ".", "read", "U", "256", "(", ")", ".", "is", "Zero", "(", ")">>,
    \* this.balance.value >= amount
      BalanceGeAmount |->
          <<"this", ".", "balance", ".", "value", " ", ">", "=", " ", "amount">>,
    \* !this.paused.value
      NotPaused |->
          <<"!", "this", ".", "paused", ".", "value">>,
    \* this.balance.value >= this.fee.value + reserve
      BalanceFeeReserve |->
          <<"this", ".", "balance", ".", "value", " ", ">", "=", " ", "this", ".", "fee", ".",
              "value", " ", "+", " ", "reserve">>,
    \* amount + amount <= limit
      AmountTwice |->
          <<"amount", " ", "+", " ", "amount", " ", "<", "=", " ", "limit">>,
    \* x > 0
      ShortTerms |->
          <<"x", " ", ">", " ", "0">>,
    \* this.balance.value >= old(this.balance.value)
      BalanceGrows |->
          <<"this", ".", "balance", ".", "value", " ", ">", "=", " ", "old", "(", "this", ".",
              "balance", ".", "value", ")">>,
    \* this.fee.value == newFee
      FeeIsNew |->
          <<"this", ".", "fee", ".", "value", " ", "=", "=", " ", "new", "Fee">>,
    \* return > u256.Zero
      ReturnPositive |->
          <<"return", " ", ">", " ", "u256", ".", "Zero">>,
    \* return == old(amount)
      ReturnIsOld |->
          <<"return", " ", "=", "=", " ", "old", "(", "amount", ")">>,
    \* return == old(this.balance.value)
      ReturnIsOldBalance |->
          <<"return", " ", "=", "=", " ", "old", "(", "this", ".", "balance", ".", "value",
              ")">>,
    \* result == old(amount)
      ResultIsOld |->
          <<"result", " ", "=", "=", " ", "old", "(", "amount", ")">>,
    \* CEI
      CEI |->
          <<"CEI">>,
    \* cei
      CeiLower |->
          <<"cei">>,
    \* this.fee.value <= u256.fromU32(500)
      FeeCap |->
          <<"this", ".", "fee", ".", "value", " ", "<", "=", " ", "u256", ".", "from", "U",
              "32", "(", "500", ")">>,
    \* this.balance.value >= this.fee.value
      BalanceCoversFee |->
          <<"this", ".", "balance", ".", "value", " ", ">", "=", " ", "this", ".", "fee", ".",
              "value">>,
    \* this.total.value > u256.Zero
      TotalPositive |->
          <<"this", ".", "total", ".", "value", " ", ">", " ", "u256", ".", "Zero">>,
    \* totalSupply == MAX_SUPPLY
      SupplyFixed |->
          <<"total", "Supply", " ", "=", "=", " ", "MAX", "_", "SUPPLY">>,
    \* this.tokenAddress.value
      TargetTokenAddress |->
          <<"this", ".", "token", "Address", ".", "value">>,
    \* FEE_DESTINATION
      TargetFeeDestination |->
          <<"FEE", "_", "DESTINATION">>,
    \* pillAddress
      TargetPill |->
          <<"pill", "Address">>,
    \* transferFrom(sender, this, amount)
      CalledTransferFrom |->
          <<"transfer", "From", "(", "sender", ",", " ", "this", ",", " ", "amount", ")">>,
    \* transfer(sender, amount)
      CalledTransfer |->
          <<"transfer", "(", "sender", ",", " ", "amount", ")">>,
    \* swap(amount)
      CalledSwap |->
          <<"swap", "(", "amount", ")">>,
    \* must-succeed
      MustSucceed |->
          <<"must", "-", "succeed">>,
    \* may-fail
      MayFail |->
          <<"may", "-", "fail">>,
    \* deployer-only
      LevelDeployerOnly |->
          <<"deployer", "-", "only">>,
    \* Deployer-Only
      LevelDeployerOnlyCaps |->
          <<"Deployer", "-", "Only">>,
    \* owner-only
      LevelOwnerOnly |->
          <<"owner", "-", "only">>,
    \* anyone
      LevelAnyone |->
          <<"anyone">>,
    \* admin-only
      LevelAdminOnly |->
          <<"admin", "-", "only">>,
    \* ACTIVE
      StateActive |->
          <<"ACTIVE">>,
    \* TRIGGERED
      StateTriggered |->
          <<"TRIGGERED">>,
    \* !GRADUATED
      StateNotGraduated |->
          <<"!", "GRADUATED">>,
    \* balance >= amount
      CondBalanceCovers |->
          <<"balance", " ", ">", "=", " ", "amount">>,
    \* ACTIVE -> TRIGGERED : setFee(), sweep()
      TransitionSetFeeSweep |->
          <<"ACTIVE", " ", "-", ">", " ", "TRIGGERED", " ", ":", " ", "set", "Fee", "(", ")",
              ",", " ", "sweep", "(", ")">>,
    \* TRIGGERED -> ACTIVE : sweep()
      TransitionSweep |->
          <<"TRIGGERED", " ", "-", ">", " ", "ACTIVE", " ", ":", " ", "sweep", "(", ")">>,
    \* !GRADUATED -> !GRADUATED : deposit() [when balance >= amount]
      TransitionDepositWhen |->
          <<"!", "GRADUATED", " ", "-", ">", " ", "!", "GRADUATED", " ", ":", " ", "deposit",
              "(", ")", " ", "[", "when", " ", "balance", " ", ">", "=", " ", "amount", "]">>,
    \* ACTIVE to TRIGGERED by setFee
      TransitionMalformed |->
          <<"ACTIVE", " ", "to", " ", "TRIGGERED", " ", "by", " ", "set", "Fee">>,
    \* PRE-SALE -> ACTIVE : setFee()
      TransitionHyphen |->
          <<"PRE", "-", "SALE", " ", "-", ">", " ", "ACTIVE", " ", ":", " ", "set", "Fee", "(",
              ")">>,
    \* ACTIVE -> : setFee()
      TransitionNoTarget |->
          <<"ACTIVE", " ", "-", ">", " ", ":", " ", "set", "Fee", "(", ")">>,
    \*   ACTIVE -> TRIGGERED : setFee(), , sweep(true),  
      TransitionItems |->
          <<" ", "ACTIVE", " ", "-", ">", " ", "TRIGGERED", " ", ":", " ", "set", "Fee", "(",
              ")", ",", " ", ",", " ", "sweep", "(", "true", ")", ",", " ">>,
    \* ACTIVE -> TRIGGERED
      TransitionNoColon |->
          <<"ACTIVE", " ", "-", ">", " ", "TRIGGERED">>,
    \* -> ACTIVE : setFee()
      TransitionNoSource |->
          <<"-", ">", " ", "ACTIVE", " ", ":", " ", "set", "Fee", "(", ")">>,
    \* ACTIVE -> TRIGGERED -> ACTIVE : setFee() [when fee > 0]
      TransitionChain |->
          <<"ACTIVE", " ", "-", ">", " ", "TRIGGERED", " ", "-", ">", " ", "ACTIVE", " ", ":",
              " ", "set", "Fee", "(", ")", " ", "[", "when", " ", "fee", " ", ">", " ", "0",
              "]">>,
    \* ACTIVE -> TRIGGERED :
      TransitionNoMethods |->
          <<"ACTIVE", " ", "-", ">", " ", "TRIGGERED", " ", ":">>,
    \* no-approve
      OpnetNoApprove |->
          <<"no", "-", "approve">>,
    \* No-Approve
      OpnetNoApproveCaps |->
          <<"No", "-", "Approve">>,
    \* csv-timelocks
      OpnetCsvTimelocks |->
          <<"csv", "-", "timelocks">>,
    \*  csv-timelocks 
      OpnetCsvTimelocksPadded |->
          <<" ", "csv", "-", "timelocks", " ">>,
    \* selectors-sha256
      OpnetSelectorsSha256 |->
          <<"selectors", "-", "sha256">>,
    \* address-two-params
      OpnetAddressTwoParams |->
          <<"address", "-", "two", "-", "params">>,
    \* max-gas 500
      OpnetMaxGas |->
          <<"max", "-", "gas", " ", "500">>,
    \* FEE_DESTINATION : route(a -> b) -> must-succeed
      CallsTwoArrows |->
          <<"FEE", "_", "DESTINATION", " ", ":", " ", "route", "(", "a", " ", "-", ">", " ",
              "b", ")", " ", "-", ">", " ", "must", "-", "succeed">>,
    \* FEE_DESTINATION : transfer(to: Address) -> may-fail
      CallsTwoColons |->
          <<"FEE", "_", "DESTINATION", " ", ":", " ", "transfer", "(", "to", ":", " ",
              "Address", ")", " ", "-", ">", " ", "may", "-", "fail">>,
    \* transfer(to, amount) -> must-succeed
      CallsNoColon |->
          <<"transfer", "(", "to", ",", " ", "amount", ")", " ", "-", ">", " ", "must", "-",
              "succeed">>,
    \* FEE_DESTINATION : transfer(to, amount)
      CallsNoArrow |->
          <<"FEE", "_", "DESTINATION", " ", ":", " ", "transfer", "(", "to", ",", " ",
              "amount", ")">>,
    \* must-succeed -> FEE_DESTINATION : transfer
      CallsArrowFirst |->
          <<"must", "-", "succeed", " ", "-", ">", " ", "FEE", "_", "DESTINATION", " ", ":",
              " ", "transfer">>,
    \*   pillAddress:transfer(to)->may-fail 
      CallsDense |->
          <<" ", "pill", "Address", ":", "transfer", "(", "to", ")", "-", ">", "may", "-",
              "fail", " ">>,
    \* FEE_DESTINATION :-> must-succeed
      CallsColonArrow |->
          <<"FEE", "_", "DESTINATION", " ", ":", "-", ">", " ", "must", "-", "succeed">>,
    \* /// @pre !this.paused.value  // "Contract is paused"
      LinePreComment |->
          <<"//", "/", " ", "@", "pre", " ", "!", "this", ".", "paused", ".", "value", " ",
              "//", " ", "\"", "Contract", " ", "is", " ", "paused", "\"">>,
    \* /// @pre amount > 0 // positive // checked
      LinePreTwoComments |->
          <<"//", "/", " ", "@", "pre", " ", "amount", " ", ">", " ", "0", " ", "//", " ",
              "positive", " ", "//", " ", "checked">>,
    \* /// @pre uri != "ipfs://" // not the bare scheme
      LinePreUrl |->
          <<"//", "/", " ", "@", "pre", " ", "uri", " ", "!", "=", " ", "\"", "ipfs", ":",
              "//", "\"", " ", "//", " ", "not", " ", "the", " ", "bare", " ", "scheme">>,
    \* /// @requires amount > 0
      LineRequiresPlain |->
          <<"//", "/", " ", "@", "requires", " ", "amount", " ", ">", " ", "0">>,
    \* * @access deployer-only // admin
      LineAccessJsdoc |->
          <<"*", " ", "@", "access", " ", "deployer", "-", "only", " ", "//", " ", "admin">>,
    \* /// @temporal heartbeat() within 100 blocks //
      LineTemporalOpen |->
          <<"//", "/", " ", "@", "temporal", " ", "heartbeat", "(", ")", " ", "within", " ",
              "100", " ", "blocks", " ", "//">>,
    \* /// @pre // only
      LinePreOnlyComment |->
          <<"//", "/", " ", "@", "pre", " ", "//", " ", "only">>,
    \* /// @note amount > 0 // remark
      LineNote |->
          <<"//", "/", " ", "@", "note", " ", "amount", " ", ">", " ", "0", " ", "//", " ",
              "remark">>,
    \* // @pre amount > 0 // plain comment
      LineTwoSlashes |->
          <<"//", " ", "@", "pre", " ", "amount", " ", ">", " ", "0", " ", "//", " ", "plain",
              " ", "comment">>,
    \* /// @pre
      LinePreBare |->
          <<"//", "/", " ", "@", "pre">>,
    \*    /// @post this.balance.value >= old(this.balance.value) // grows  
      LinePostPadded |->
          <<" ", "//", "/", " ", "@", "post", " ", "this", ".", "balance", ".", "value", " ",
              ">", "=", " ", "old", "(", "this", ".", "balance", ".", "value", ")", " ", "//",
              " ", "grows", " ">>,
    \* //// @pre amount > 0 // four
      LineFourSlashes |->
          <<"//", "//", " ", "@", "pre", " ", "amount", " ", ">", " ", "0", " ", "//", " ",
              "four">>,
    \* /// @invariant this.fee.value <= MAX_FEE // capped
      LineInvariantFee |->
          <<"//", "/", " ", "@", "invariant", " ", "this", ".", "fee", ".", "value", " ", "<",
              "=", " ", "MAX", "_", "FEE", " ", "//", " ", "capped">>,
    \* /// @opnet no-approve
      LineOpnetNoApprove |->
          <<"//", "/", " ", "@", "opnet", " ", "no", "-", "approve">>,
    \* /// @temporal deposit() must be called within 100 blocks
      LineTemporalDeposit |->
          <<"//", "/", " ", "@", "temporal", " ", "deposit", "(", ")", " ", "must", " ", "be",
              " ", "called", " ", "within", " ", "100", " ", "blocks">>,
    \* /// @state ACTIVE -> TRIGGERED : setFee()
      LineStateSetFee |->
          <<"//", "/", " ", "@", "state", " ", "ACTIVE", " ", "-", ">", " ", "TRIGGERED", " ",
              ":", " ", "set", "Fee", "(", ")">>,
    \* /// @access deployer-only
      LineAccessDeployer |->
          <<"//", "/", " ", "@", "access", " ", "deployer", "-", "only">>,
    \* import { OP_NET } from './runtime';
      ImportRuntime |->
          <<"import", " ", "{", " ", "OP", "_", "NET", " ", "}", " ", "from", " ", "'", ".",
              "/", "runtime", "'", ";">>,
    \* export class Treasury extends OP_NET
      HeadTreasury |->
          <<"export", " ", "class", " ", "Treasury", " ", "extends", " ", "OP", "_", "NET">>,
    \* deposit() must be called within this.fee.value blocks
      TemporalDeposit |->
          <<"deposit", "(", ")", " ", "must", " ", "be", " ", "called", " ", "within", " ",
              "this", ".", "fee", ".", "value", " ", "blocks">>,
    \* export class BrokenVault extends OP_NET
      HeadBrokenVault |->
          <<"export", " ", "class", " ", "Broken", "Vault", " ", "extends", " ", "OP", "_",
              "NET">>,
    \* public setFee(calldata: Calldata): BytesWriter
      SigSetFee |->
          <<"public", " ", "set", "Fee", "(", "calldata", ":", " ", "Calldata", ")", ":", " ",
              "Bytes", "Writer">>,
    \* public deposit(calldata: Calldata): BytesWriter
      SigDeposit |->
          <<"public", " ", "deposit", "(", "calldata", ":", " ", "Calldata", ")", ":", " ",
              "Bytes", "Writer">>,
    \* public execute(method: Selector, calldata: Calldata): BytesWriter
      SigExecute |->
          <<"public", " ", "execute", "(", "method", ":", " ", "Selector", ",", " ",
              "calldata", ":", " ", "Calldata", ")", ":", " ", "Bytes", "Writer">>,
    \* public withdraw(calldata: Calldata): BytesWriter
      SigWithdraw |->
          <<"public", " ", "withdraw", "(", "calldata", ":", " ", "Calldata", ")", ":", " ",
              "Bytes", "Writer">> ]

-----------------------------------------------------------------------------
(* Evidence extractors (ast-utils.ts).  A method declaration is            *)
(* [name, sig, hasBody, stmts]; a class declaration [name, head, props,    *)
(* methods]; the source file is the sequence of its top-level statements, *)
(* and a statement that is no class declaration has no methods field. A    *)
(* node may carry the comment lines before it as doc, the first of them on *)
(* line docLine.                                                           *)

findClassDeclarations(sf) == SelectSeq(sf, LAMBDA node : "methods" \in DOMAIN node)

\* node.name?.text || '<anonymous>'
getClassName(c) == IF c.name = "" THEN "<anonymous>" ELSE c.name

getClassMethods(c) == c.methods

getMethodName(m) == m.name

\* method.body.getText(): the braces, the statements and the comments
\* between them, one per line
getMethodBodyText(m) ==
    IF ~m.hasBody THEN <<>>
    ELSE <<"{", "\n">>
         \o Flatten([i \in 1..Len(m.stmts) |-> m.stmts[i].text \o <<"\n">>])
         \o <<"}">>

\* the offset in the body text at which the i-th item of the body starts
StmtStart(m, i) ==
    LET F[j \in 1..Len(m.stmts)] ==
            IF j = 1 THEN 2 ELSE F[j - 1] + Len(m.stmts[j - 1].text) + 1
    IN  F[i]

\* walkTree(method.body, callback): the nodes in document order, each with
\* its getStart() position
walkTree(m) ==
    Flatten([i \in 1..Len(m.stmts) |->
        [n \in 1..Len(m.stmts[i].nodes) |->
            [type |-> m.stmts[i].nodes[n].type,
             op   |-> m.stmts[i].nodes[n].op,
             head |-> m.stmts[i].nodes[n].head,
             pos  |-> StmtStart(m, i) + m.stmts[i].nodes[n].off]]])

storedTypes ==
    <<<<"Stored", "U", "256">>, <<"Stored", "Address">>, <<"Stored", "Boolean">>,
      <<"Stored", "String">>, <<"Stored", "Map", "U", "256">>, <<"Address", "Memory", "Map">>>>

IsStoredProp(p) ==
    \E i \in 1..Len(storedTypes) :
        Includes(p.type, storedTypes[i]) \/ Includes(p.init, <<"new", " ">> \o storedTypes[i])

\* the map fieldName -> stored type of the class's property declarations
detectStoredFields(c) ==
    LET names == {c.props[i].name : i \in {j \in 1..Len(c.props) : IsStoredProp(c.props[j])}}
        lastDecl(n) == c.props[CHOOSE i \in 1..Len(c.props) :
                           /\ c.props[i].name = n /\ IsStoredProp(c.props[i])
                           /\ \A j \in (i + 1)..Len(c.props) :
                                  ~(c.props[j].name = n /\ IsStoredProp(c.props[j]))]
        typeOf(p) == storedTypes[CHOOSE i \in 1..Len(storedTypes) :
                         /\ Includes(p.type, storedTypes[i])
                               \/ Includes(p.init, <<"new", " ">> \o storedTypes[i])
                         /\ \A j \in 1..(i - 1) :
                               ~(Includes(p.type, storedTypes[j])
                                   \/ Includes(p.init, <<"new", " ">> \o storedTypes[j]))]
    IN  [n \in names |-> typeOf(lastDecl(n))]

IsBlockchainCall(n) == n.type = "call" /\ n.head = <<"Blockchain", ".", "call">>

findBlockchainCalls(m) ==
    IF ~m.hasBody THEN <<>>
    ELSE LET calls == SelectSeq(walkTree(m), IsBlockchainCall)
         IN  [i \in 1..Len(calls) |-> [pos |-> calls[i].pos]]

\* a node that findStateWrites records: an assignment with the "=" operator
\* to this.<f>.value, or a call of this.<f>.set, f a stored field
WriteField(n, suffix) ==
    LET ms == ThisMatches(n.head, 1, suffix) IN IF ms = <<>> THEN <<>> ELSE ms[1]

IsValueWrite(n, storedFields) ==
    /\ n.type = "assign" /\ n.op = "="
    /\ EndsWith(n.head, <<".", "value">>)
    /\ WriteField(n, <<".", "value">>) # <<>>
    /\ WriteField(n, <<".", "value">>) \in storedFields

IsSetCall(n, storedFields) ==
    /\ n.type = "call"
    /\ Includes(n.head, <<"this", ".">>) /\ EndsWith(n.head, <<".", "set">>)
    /\ WriteField(n, <<".", "set">>) # <<>>
    /\ WriteField(n, <<".", "set">>) \in storedFields

findStateWrites(m, storedFields) ==
    IF ~m.hasBody THEN <<>>
    ELSE LET nodes == walkTree(m)
             isWrite(n) == IsValueWrite(n, storedFields) \/ IsSetCall(n, storedFields)
             writes == SelectSeq(nodes, isWrite)
         IN  [i \in 1..Len(writes) |->
                 [pos   |-> writes[i].pos,
                  field |-> IF IsValueWrite(writes[i], storedFields)
                            THEN WriteField(writes[i], <<".", "value">>)
                            ELSE WriteField(writes[i], <<".", "set">>),
                  text  |-> writes[i].head]]

IsGuardIf(s) == s.kind = "if" /\ Includes(s.then, <<"Revert">>)

IsGuardCall(s) ==
    /\ s.kind = "expr"
    /\ \/ Includes(s.text, <<"only", "Deployer">>) \/ Includes(s.text, <<"ensure", "Owner">>)
       \/ Includes(s.text, <<"ensure", "Active">>) \/ Includes(s.text, <<"require", "Active">>)

\* the guards among the top-level statements of the body, in order
findGuardChecks(m) ==
    IF ~m.hasBody THEN <<>>
    ELSE LET idx == SelectSeq([i \in 1..Len(m.stmts) |-> i],
                              LAMBDA i : IsGuardIf(m.stmts[i]) \/ IsGuardCall(m.stmts[i]))
         IN  [k \in 1..Len(idx) |->
                 [condition |-> IF IsGuardIf(m.stmts[idx[k]])
                                THEN m.stmts[idx[k]].cond
                                ELSE Trim(RemoveFirst(m.stmts[idx[k]].text, ";")),
                  pos |-> StmtStart(m, idx[k])]]


-----------------------------------------------------------------------------
(* Verifiers (verifier.ts).  A result is [spec, status, message, line];    *)
(* the message names the template of the code's message.                   *)

\* a result that holds an altered copy of its spec
makeResultRelined(spec, status, message) ==
    [spec |-> [spec EXCEPT !.line = 0], status |-> status, message |-> message,
     line |-> spec.line]

makeResult(spec, status, message) ==
    [spec |-> spec, status |-> status, message |-> message, line |-> spec.line]

\* the tokens of an expression: [!()=<>] become spaces, the text is split
\* at white space, tokens of more than 2 characters are kept and lose a
\* leading "this." and a trailing ".value"
extractKeyTerms(expr) ==
    LET spaced == [i \in 1..Len(expr) |->
                      IF expr[i] \in {"!", "(", ")", "=", "<", ">"} THEN " " ELSE expr[i]]
        long   == SelectSeq(SplitSpace(spaced, <<>>), LAMBDA t : CharLen(t) > 2)
    IN  [i \in 1..Len(long) |-> DropSuffix(DropPrefix(long[i], <<"this", ".">>), <<".", "value">>)]

\* /this\.(\w+)/g: "this.<name>" for every match
extractFieldRefsFromExpr(expr) ==
    LET ms == ThisMatches(expr, 1, <<>>) IN [i \in 1..Len(ms) |-> <<"this", ".">> \o ms[i]]

verifyAccessAnyone(accessSpec, bodyText) ==
    IF \/ Includes(bodyText, <<"only", "Deployer">>)
       \/ Includes(bodyText, <<"ensure", "Owner">>)
       \/ Includes(bodyText, <<"only", "Owner">>)
    THEN makeResult(accessSpec, "VIOLATED", "anyone but has access restriction")
    ELSE makeResult(accessSpec, "VERIFIED", "no access restrictions")

verifyAccessDeployerOnly(accessSpec, bodyText) ==
    LET bodyNoComments == stripComments(bodyText)
        hasDeployerCheck ==
            \/ Includes(bodyNoComments, <<"only", "Deployer">>)
            \/ Includes(bodyNoComments, <<"this", ".", "only", "Deployer">>)
        hasSenderCheck ==
            /\ Includes(bodyNoComments, <<"Blockchain", ".", "tx", ".", "sender">>)
            /\ Includes(bodyNoComments, <<"deployer">>) \/ Includes(bodyNoComments, <<"owner">>)
    IN  IF hasDeployerCheck
        THEN makeResult(accessSpec, "VERIFIED", "has onlyDeployer check")
        ELSE IF hasSenderCheck
        THEN makeResult(accessSpec, "VERIFIED", "has sender/deployer comparison")
        ELSE makeResult(accessSpec, "VIOLATED", "deployer-only but no onlyDeployer() call")

verifyAccessOwnerOnly(accessSpec, bodyText) ==
    LET bodyNoComments == stripComments(bodyText)
        hasOwnerCheck ==
            \/ Includes(bodyNoComments, <<"ensure", "Owner">>)
            \/ Includes(bodyNoComments, <<"this", ".", "ensure", "Owner">>)
            \/ Includes(bodyNoComments, <<"only", "Owner">>)
            \/ Includes(bodyNoComments, <<"this", ".", "only", "Owner">>)
        hasManualOwnerCheck ==
            /\ Includes(bodyNoComments, <<"this", ".", "owner", ".", "value">>)
            /\ Includes(bodyNoComments, <<"Blockchain", ".", "tx", ".", "sender">>)
    IN  IF hasOwnerCheck
        THEN makeResult(accessSpec, "VERIFIED", "has owner check")
        ELSE IF hasManualOwnerCheck
        THEN makeResult(accessSpec, "VERIFIED", "has manual owner comparison")
        ELSE makeResult(accessSpec, "VIOLATED", "owner-only but no owner check")

verifyAccess(accessSpec, method) ==
    LET bodyText == getMethodBodyText(method)
        level    == toLowerCase(accessSpec.level)
    IN  IF level = Text.LevelDeployerOnly THEN verifyAccessDeployerOnly(accessSpec, bodyText)
        ELSE IF level = Text.LevelOwnerOnly THEN verifyAccessOwnerOnly(accessSpec, bodyText)
        ELSE IF level = Text.LevelAnyone THEN verifyAccessAnyone(accessSpec, bodyText)
        ELSE makeResult(accessSpec, "UNVERIFIED", "Unknown access level")

guardHelpers ==
    <<<<"ensure", "Active">>, <<"ensure", "Owner">>, <<"require", "Active">>,
      <<"require", "Status">>, <<"only", "Active">>, <<"only", "Deployer">>>>

\* the special case of a precondition that names ensureOwner or onlyDeployer
preOwnerDeployerGuard(preSpec, bodyText) ==
    IF Includes(bodyText, <<"ensure", "Owner">>) \/ Includes(bodyText, <<"only", "Deployer">>)
    THEN makeResult(preSpec, "VERIFIED", "Precondition guard found")
    ELSE makeResult(preSpec, "VIOLATED", "Missing guard for precondition")

preActiveGuard(preSpec, bodyText) ==
    IF Includes(bodyText, <<"ensure", "Active">>)
    THEN makeResult(preSpec, "VERIFIED", "Precondition guard found")
    ELSE makeResult(preSpec, "VIOLATED", "Missing guard for precondition")

\* a match that asks for one common term only
guardMatchesAny(keyTerms, guard) ==
    \E i \in 1..Len(keyTerms) : keyTerms[i] \in Range(extractKeyTerms(guard.condition))

\* whether the key terms of the expression are matched by this guard
guardMatches(keyTerms, guard) ==
    LET guardTerms == extractKeyTerms(guard.condition)
        matchCount == Len(SelectSeq(keyTerms, LAMBDA t : t \in Range(guardTerms)))
        \* Math.ceil(keyTerms.length * 0.5)
        half == (Len(keyTerms) + 1) \div 2
    IN  matchCount > 0 /\ matchCount >= half

\* the steps after the helper-name cases: status/state, key terms, fallback
preHeuristics(preSpec, expr, bodyText, guards) ==
    LET statusExpr == \/ Includes(expr, <<"status">>) \/ Includes(expr, <<"STATUS">>)
                      \/ Includes(expr, <<"state">>)
        helperInBody == \E i \in 1..Len(guardHelpers) : Includes(bodyText, guardHelpers[i])
        keyTerms == extractKeyTerms(expr)
        fieldRefs == extractFieldRefsFromExpr(expr)
        bodyHasFields == \A i \in 1..Len(fieldRefs) : Includes(bodyText, fieldRefs[i])
        bodyHasRevert == Includes(bodyText, <<"Revert">>)
    IN  IF statusExpr /\ helperInBody
        THEN makeResult(preSpec, "UNVERIFIED", "may be enforced by helper call")
        ELSE IF \E i \in 1..Len(guards) : guardMatches(keyTerms, guards[i])
        THEN makeResult(preSpec, "VERIFIED", "matched by guard")
        ELSE IF bodyHasFields /\ bodyHasRevert
        THEN makeResult(preSpec, "UNVERIFIED", "references fields and has Revert")
        ELSE IF bodyHasRevert
        THEN makeResult(preSpec, "UNVERIFIED", "has Revert checks but no match")
        ELSE makeResult(preSpec, "VIOLATED", "No guard check found")

verifyPrecondition(preSpec, method) ==
    LET expr     == Trim(preSpec.expression)
        bodyText == getMethodBodyText(method)
        guards   == findGuardChecks(method)
    IN  IF Includes(expr, <<"ensure", "Owner">>) \/ Includes(expr, <<"only", "Deployer">>)
        THEN preOwnerDeployerGuard(preSpec, bodyText)
        ELSE IF Includes(expr, <<"ensure", "Active">>)
        THEN preActiveGuard(preSpec, bodyText)
        ELSE preHeuristics(preSpec, expr, bodyText, guards)

\* verifyCEI with the comparison of positions turned round: a write before
\* a call counts as the violation
verifyCEIWriteBeforeCall(spec, method, storedFields) ==
    LET externalCalls == findBlockchainCalls(method)
        stateWrites   == findStateWrites(method, storedFields)
        violations ==
            {<<c, w>> \in (1..Len(externalCalls)) \X (1..Len(stateWrites)) :
                stateWrites[w].pos < externalCalls[c].pos}
    IN  IF Len(externalCalls) = 0
        THEN makeResult(spec, "VERIFIED", "no external calls")
        ELSE IF Len(stateWrites) = 0
        THEN makeResult(spec, "VERIFIED", "no state writes")
        ELSE IF violations # {}
        THEN makeResult(spec, "VIOLATED", "CEI violation")
        ELSE makeResult(spec, "VERIFIED", "follows CEI pattern")

verifyCEI(spec, method, storedFields) ==
    LET externalCalls == findBlockchainCalls(method)
        stateWrites   == findStateWrites(method, storedFields)
        violations ==
            {<<c, w>> \in (1..Len(externalCalls)) \X (1..Len(stateWrites)) :
                stateWrites[w].pos > externalCalls[c].pos}
    IN  IF Len(externalCalls) = 0
        THEN makeResult(spec, "VERIFIED", "no external calls")
        ELSE IF Len(stateWrites) = 0
        THEN makeResult(spec, "VERIFIED", "no state writes")
        ELSE IF violations # {}
        THEN makeResult(spec, "VIOLATED", "CEI violation")
        ELSE makeResult(spec, "VERIFIED", "follows CEI pattern")

\* the fields of the postcondition that the body text does not mention as
\* this.<f>.value or this.<f>.set
unmodifiedFields(postSpec, bodyText) ==
    SelectSeq(postSpec.fieldReferences,
              LAMBDA f : /\ ~Includes(bodyText, <<"this", ".">> \o f \o <<".", "value">>)
                         /\ ~Includes(bodyText, <<"this", ".">> \o f \o <<".", "set">>))

\* postStructural with the old() check moved before the return-value check
postStructuralOldFirst(postSpec, bodyText) ==
    IF Len(postSpec.fieldReferences) > 0 /\ Len(unmodifiedFields(postSpec, bodyText)) > 0
    THEN makeResult(postSpec, "UNVERIFIED", "references fields that are not modified")
    ELSE IF Len(postSpec.oldReferences) > 0
    THEN makeResult(postSpec, "UNVERIFIED", "uses old() references")
    ELSE IF Includes(postSpec.expression, <<"return">>) /\ ~Includes(bodyText, <<"return">>)
    THEN makeResult(postSpec, "VIOLATED", "references return value but no return statement")
    ELSE IF Len(postSpec.fieldReferences) > 0
    THEN makeResult(postSpec, "UNVERIFIED", "fields are modified")
    ELSE makeResult(postSpec, "UNVERIFIED", "structural check passed")

\* postStructural with the passed structural check reported as VERIFIED
postStructuralPassVerified(postSpec, bodyText) ==
    IF Len(postSpec.fieldReferences) > 0 /\ Len(unmodifiedFields(postSpec, bodyText)) > 0
    THEN makeResult(postSpec, "UNVERIFIED", "references fields that are not modified")
    ELSE IF Includes(postSpec.expression, <<"return">>) /\ ~Includes(bodyText, <<"return">>)
    THEN makeResult(postSpec, "VIOLATED", "references return value but no return statement")
    ELSE IF Len(postSpec.oldReferences) > 0
    THEN makeResult(postSpec, "UNVERIFIED", "uses old() references")
    ELSE IF Len(postSpec.fieldReferences) > 0
    THEN makeResult(postSpec, "UNVERIFIED", "fields are modified")
    ELSE makeResult(postSpec, "VERIFIED", "structural check passed")

postStructural(postSpec, bodyText) ==
    IF Len(postSpec.fieldReferences) > 0 /\ Len(unmodifiedFields(postSpec, bodyText)) > 0
    THEN makeResult(postSpec, "UNVERIFIED", "references fields that are not modified")
    ELSE IF Includes(postSpec.expression, <<"return">>) /\ ~Includes(bodyText, <<"return">>)
    THEN makeResult(postSpec, "VIOLATED", "references return value but no return statement")
    ELSE IF Len(postSpec.oldReferences) > 0
    THEN makeResult(postSpec, "UNVERIFIED", "uses old() references")
    ELSE IF Len(postSpec.fieldReferences) > 0
    THEN makeResult(postSpec, "UNVERIFIED", "fields are modified")
    ELSE makeResult(postSpec, "UNVERIFIED", "structural check passed")

verifyPostcondition(postSpec, method, storedFields) ==
    IF postSpec.isCEI
    THEN verifyCEI(postSpec, method, storedFields)
    ELSE postStructural(postSpec, getMethodBodyText(method))

\* calledMethod.replace(/\(.*\)$/, ''): the text before the first "(" when
\* the text ends with ")"
calledMethodName(calledMethod) ==
    IF calledMethod # <<>> /\ calledMethod[Len(calledMethod)] = ")"
       /\ \E i \in 1..Len(calledMethod) : calledMethod[i] = "("
    THEN LET i == CHOOSE k \in 1..Len(calledMethod) :
                      calledMethod[k] = "(" /\ \A j \in 1..(k - 1) : calledMethod[j] # "("
         IN  SubSeq(calledMethod, 1, i - 1)
    ELSE calledMethod

callsTargetReferenced(callSpec, bodyText) ==
    LET targetField == DropSuffix(DropPrefix(callSpec.target, <<"this", ".">>), <<".", "value">>)
    IN  Includes(bodyText, callSpec.target) \/ Includes(bodyText, targetField)

callsSelectorRef(callSpec, bodyText) ==
    \/ Includes(bodyText, calledMethodName(callSpec.calledMethod))
    \/ Includes(bodyText, <<"Selector">>)
    \/ Includes(bodyText, <<"encode", "Selector">>)

\* callsChecksSuccess without the revert marker
callsChecksSuccessFlagOnly(bodyText) ==
    \/ Includes(bodyText, <<".", "success">>)
    \/ Includes(bodyText, <<"result", ".", "success">>)

callsChecksSuccess(bodyText) ==
    \/ Includes(bodyText, <<".", "success">>)
    \/ Includes(bodyText, <<"result", ".", "success">>)
    \/ Includes(bodyText, <<"Revert">>)

verifyCalls(callSpec, method) ==
    LET bodyText == getMethodBodyText(method)
        externalCalls == findBlockchainCalls(method)
    IN  IF Len(externalCalls) = 0
        THEN makeResult(callSpec, "VIOLATED", "no Blockchain.call()")
        ELSE IF ~callsTargetReferenced(callSpec, bodyText)
        THEN makeResult(callSpec, "VIOLATED", "doesn't reference that target")
        ELSE IF calledMethodName(callSpec.calledMethod) # <<>>
                /\ ~callsSelectorRef(callSpec, bodyText)
        THEN makeResult(callSpec, "UNVERIFIED", "couldn't verify method is being called")
        ELSE IF callSpec.expectation = Text.MustSucceed /\ ~callsChecksSuccess(bodyText)
        THEN makeResult(callSpec, "VIOLATED", "must-succeed but doesn't check call result")
        ELSE makeResult(callSpec, "VERIFIED", "calls target with result checking")


NumberChunks == {"0", "1", "2", "16", "32", "100", "256", "500"}

RECURSIVE SkipSpaces(_, _)
SkipSpaces(t, i) == IF i <= Len(t) /\ IsSpace(t[i]) THEN SkipSpaces(t, i + 1) ELSE i

\* /Selector\s*=\s*(?:0x[0-9a-fA-F]+|\d+)/.test(text)
hasHardcodedSelector(text) ==
    \E i \in 1..Len(text) :
        /\ text[i] = "Selector"
        /\ LET e == SkipSpaces(text, i + 1)
           IN  /\ e <= Len(text) /\ text[e] = "="
               /\ LET n == SkipSpaces(text, e + 1)
                  IN  n <= Len(text) /\ text[n] \in NumberChunks

\* the matches of /Address\.fromString\s*\(([^)]*)\)/g whose argument text
\* holds no comma
singleParamFromString(text) ==
    {i \in 1..Len(text) :
        /\ OccursAt(text, i, <<"Address", ".", "from", "String">>)
        /\ LET o == SkipSpaces(text, i + Len(<<"Address", ".", "from", "String">>))
           IN  /\ o <= Len(text) /\ text[o] = "("
               /\ \E c \in (o + 1)..Len(text) :
                      /\ text[c] = ")"
                      /\ \A j \in (o + 1)..(c - 1) : text[j] \notin {")", ","}}

\* /\.approve\s*\(/.test(text)
hasApprove(text) ==
    \E i \in 1..Len(text) :
        /\ OccursAt(text, i, <<".", "approve">>)
        /\ LET o == SkipSpaces(text, i + Len(<<".", "approve">>))
           IN  o <= Len(text) /\ text[o] = "("

\* classDecl.getText(): the head, the property declarations and the methods
getClassText(c) ==
    c.head \o <<" ", "{", "\n">>
    \o Flatten([i \in 1..Len(c.props) |-> c.props[i].text \o <<"\n">>])
    \o Flatten([i \in 1..Len(c.methods) |->
           c.methods[i].sig \o <<" ">> \o getMethodBodyText(c.methods[i]) \o <<"\n">>])
    \o <<"}">>

\* a default branch that rejects the constraint
opnetDefaultMissing(spec) == makeResult(spec, "MISSING", "Unknown @opnet constraint")

\* the default branch of the switch: a constraint name that is none of the four
opnetDefault(spec) == makeResult(spec, "UNVERIFIED", "Unknown @opnet constraint")

verifyOpnetConstraint(spec, classDecl) ==
    LET classText == getClassText(classDecl)
    IN  IF spec.constraint = <<"selectors", "-", "sha256">>
        THEN IF hasHardcodedSelector(classText) /\ ~Includes(classText, <<"encode", "Selector">>)
             THEN makeResult(spec, "VIOLATED", "hardcoded selectors")
             ELSE IF Includes(classText, <<"encode", "Selector">>)
             THEN makeResult(spec, "VERIFIED", "uses encodeSelector()")
             ELSE makeResult(spec, "UNVERIFIED", "Could not determine selector encoding")
        ELSE IF spec.constraint = <<"address", "-", "two", "-", "params">>
        THEN IF singleParamFromString(classText) # {}
             THEN makeResult(spec, "VIOLATED", "Address.fromString() with single parameter")
             ELSE IF Includes(classText, <<"Address", ".", "from", "String">>)
             THEN makeResult(spec, "VERIFIED", "all Address.fromString() calls use two")
             ELSE makeResult(spec, "VERIFIED", "No Address.fromString() calls found")
        ELSE IF spec.constraint = <<"no", "-", "approve">>
        THEN IF hasApprove(classText)
             THEN makeResult(spec, "VIOLATED", "uses .approve()")
             ELSE makeResult(spec, "VERIFIED", "does not use .approve()")
        ELSE IF spec.constraint = <<"csv", "-", "timelocks">>
        THEN makeResult(spec, "UNVERIFIED", "CSV timelock verification not available")
        ELSE opnetDefault(spec)

verifyStateTransition(stateSpec, method) ==
    LET bodyText == getMethodBodyText(method)
        transition == stateSpec.transition
        fromState == transition.fromState
        toState == transition.toState
        isNegatedFrom == StartsWith(fromState, <<"!">>)
        cleanFromState == DropPrefix(fromState, <<"!">>)
        isNegatedTo == StartsWith(toState, <<"!">>)
        cleanToState == DropPrefix(toState, <<"!">>)
        stateRelatedTerms ==
            <<toLowerCase(cleanFromState), toLowerCase(cleanToState), <<"status">>, <<"state">>,
              <<"graduated">>, <<"initialized">>, <<"active">>>>
        bodyLower == toLowerCase(bodyText)
        hasStateRef ==
            \E i \in 1..Len(stateRelatedTerms) : Includes(bodyLower, stateRelatedTerms[i])
        hasGuard == Includes(bodyText, <<"Revert">>) \/ Includes(bodyText, <<"throw">>)
        conditionTerms == extractKeyTerms(transition.condition)
        conditionMatched ==
            \E i \in 1..Len(conditionTerms) : Includes(bodyLower, toLowerCase(conditionTerms[i]))
    IN  IF ~hasStateRef
        THEN makeResult(stateSpec, "UNVERIFIED", "no state-related field references found")
        ELSE IF ~hasGuard
        THEN makeResult(stateSpec, "UNVERIFIED", "state references but no guard/revert")
        ELSE IF transition.condition # <<>> /\ ~conditionMatched
        THEN makeResult(stateSpec, "UNVERIFIED", "condition not found in method body")
        ELSE IF cleanFromState = cleanToState /\ isNegatedFrom = isNegatedTo
        THEN makeResult(stateSpec, "UNVERIFIED", "self-transition requires deeper analysis")
        ELSE makeResult(stateSpec, "UNVERIFIED", "structural checks pass")

\* whether the body text mentions a field of the invariant as
\* this.<f>.value or this.<f>.set
touchesField(invariant, bodyText) ==
    \E i \in 1..Len(invariant.fieldReferences) :
        \/ Includes(bodyText, <<"this", ".">> \o invariant.fieldReferences[i] \o <<".", "value">>)
        \/ Includes(bodyText, <<"this", ".">> \o invariant.fieldReferences[i] \o <<".", "set">>)

\* invariantMethodResult with an unguarded modification reported as VIOLATED
invariantMethodResultStrict(invariant, method) ==
    LET bodyText == getMethodBodyText(method)
        hasChecks == Includes(bodyText, <<"Revert">>) \/ Includes(bodyText, <<"throw">>)
    IN  IF hasChecks
        THEN makeResult(invariant, "UNVERIFIED", "modifies fields and has guards")
        ELSE makeResult(invariant, "VIOLATED", "modifies fields with NO guard checks")

invariantMethodResult(invariant, method) ==
    LET bodyText == getMethodBodyText(method)
        hasChecks == Includes(bodyText, <<"Revert">>) \/ Includes(bodyText, <<"throw">>)
    IN  IF hasChecks
        THEN makeResult(invariant, "UNVERIFIED", "modifies fields and has guards")
        ELSE makeResult(invariant, "UNVERIFIED", "modifies fields with NO guard checks")

\* allMethods is the sequence of the class's methods in the order of the Map
verifyInvariant(invariant, classDecl, allMethods) ==
    IF Len(invariant.fieldReferences) = 0
    THEN <<makeResult(invariant, "UNVERIFIED", "references no this.X.value fields")>>
    ELSE LET modifyingMethods ==
                 SelectSeq(allMethods,
                           LAMBDA m : touchesField(invariant, getMethodBodyText(m)))
         IN  IF Len(modifyingMethods) = 0
             THEN <<makeResult(invariant, "VERIFIED", "no methods modify the referenced fields")>>
             ELSE [i \in 1..Len(modifyingMethods) |->
                      invariantMethodResult(invariant, modifyingMethods[i])]


-----------------------------------------------------------------------------
(* verifyContract (verifier.ts).  A ContractSpecs is [className,           *)
(* invariants, opnetConstraints, stateTransitions, methods]; methods is    *)
(* the Map methodName -> MethodSpecs in insertion order, a MethodSpecs     *)
(* [methodName, access, preconditions, postconditions, calls,              *)
(* stateTransitions, temporal] with access a sequence of at most one spec. *)

\* the Map name -> declaration built by allMethods.set in declaration
\* order: a key keeps the place of its first set and the value of its last
buildMethodMap(classDecl) ==
    LET ms == getClassMethods(classDecl)
        nameOf(i) == getMethodName(ms[i])
        firsts == SelectSeq([i \in 1..Len(ms) |-> i],
                            LAMBDA i : \A j \in 1..(i - 1) : nameOf(j) # nameOf(i))
        lastOf(n) == CHOOSE i \in 1..Len(ms) :
                         nameOf(i) = n /\ \A j \in (i + 1)..Len(ms) : nameOf(j) # n
    IN  [k \in 1..Len(firsts) |-> ms[lastOf(nameOf(firsts[k]))]]

\* allMethods.get(methodName): a sequence, empty when the key is absent
mapGet(allMethods, methodName) ==
    SelectSeq(allMethods, LAMBDA m : getMethodName(m) = methodName)

\* a report whose summary leaves the MISSING results uncounted
buildReportNoMissing(c, rs) ==
    LET count(status) == Len(SelectSeq(rs, LAMBDA r : r.status = status))
    IN  [contractName |-> c.className,
         results |-> rs,
         summary |-> [verified   |-> count("VERIFIED"),
                      unverified |-> count("UNVERIFIED"),
                      violated   |-> count("VIOLATED"),
                      missing    |-> 0,
                      total      |-> Len(rs)]]

buildReport(c, rs) ==
    LET count(status) == Len(SelectSeq(rs, LAMBDA r : r.status = status))
    IN  [contractName |-> c.className,
         results |-> rs,
         summary |-> [verified   |-> count("VERIFIED"),
                      unverified |-> count("UNVERIFIED"),
                      violated   |-> count("VIOLATED"),
                      missing    |-> count("MISSING"),
                      total      |-> Len(rs)]]

\* the branch of a ContractSpecs whose class is not declared
classNotFound(c) ==
    [i \in 1..Len(c.invariants) |->
        makeResult(c.invariants[i], "MISSING", "Class not found in source")]

\* the branch of a method bundle whose method is not declared
methodNotFound(methodSpecs) ==
    LET missing(specs) ==
            [i \in 1..Len(specs) |-> makeResult(specs[i], "MISSING", "Method not found in class")]
    IN  missing(methodSpecs.access) \o missing(methodSpecs.preconditions)
        \o missing(methodSpecs.postconditions) \o missing(methodSpecs.calls)

verifyMethodSpecs(methodSpecs, method, storedFieldNames) ==
    [i \in 1..Len(methodSpecs.access) |-> verifyAccess(methodSpecs.access[i], method)]
    \o [i \in 1..Len(methodSpecs.preconditions) |->
           verifyPrecondition(methodSpecs.preconditions[i], method)]
    \o [i \in 1..Len(methodSpecs.postconditions) |->
           verifyPostcondition(methodSpecs.postconditions[i], method, storedFieldNames)]
    \o [i \in 1..Len(methodSpecs.calls) |-> verifyCalls(methodSpecs.calls[i], method)]
    \o [i \in 1..Len(methodSpecs.stateTransitions) |->
           verifyStateTransition(methodSpecs.stateTransitions[i], method)]
    \o [i \in 1..Len(methodSpecs.temporal) |->
           makeResult(methodSpecs.temporal[i], "UNVERIFIED", "requires runtime monitoring")]

\* step 3: the method bundles, in the order of the Map
verifyMethods(c, allMethods, storedFieldNames) ==
    Flatten([i \in 1..Len(c.methods) |->
        LET found == mapGet(allMethods, c.methods[i].methodName)
        IN  IF found = <<>>
            THEN methodNotFound(c.methods[i])
            ELSE verifyMethodSpecs(c.methods[i], found[1], storedFieldNames)])

\* r.spec === st: the same annotation object
\* an identity test that never recognises a spec
sameSpecNever(a, b) == FALSE

sameSpec(a, b) == a.tag = b.tag /\ a.line = b.line /\ a = b

\* step 4: the contract-level state transitions no earlier result is about,
\* one result per method the transition names
RECURSIVE verifyTransitions(_, _, _)
verifyTransitions(sts, allMethods, acc) ==
    IF sts = <<>> THEN acc
    ELSE LET st == Head(sts)
             alreadyVerified == \E i \in 1..Len(acc) : sameSpec(acc[i].spec, st)
             names == st.transition.methods
             perMethod ==
                 [k \in 1..Len(names) |->
                     IF mapGet(allMethods, names[k]) # <<>>
                     THEN verifyStateTransition(st, mapGet(allMethods, names[k])[1])
                     ELSE makeResult(st, "MISSING", "State transition method not found")]
         IN  verifyTransitions(Tail(sts), allMethods,
                               IF alreadyVerified THEN acc ELSE acc \o perMethod)

verifyContractResults(c, sf) ==
    LET classes == SelectSeq(findClassDeclarations(sf),
                             LAMBDA d : getClassName(d) = c.className)
    IN  IF classes = <<>>
        THEN classNotFound(c)
        ELSE LET classDecl == classes[1]
                 allMethods == buildMethodMap(classDecl)
                 storedFieldNames == DOMAIN detectStoredFields(classDecl)
                 step1 == Flatten([i \in 1..Len(c.invariants) |->
                              verifyInvariant(c.invariants[i], classDecl, allMethods)])
                 step2 == [i \in 1..Len(c.opnetConstraints) |->
                              verifyOpnetConstraint(c.opnetConstraints[i], classDecl)]
                 step3 == verifyMethods(c, allMethods, storedFieldNames)
             IN  verifyTransitions(c.stateTransitions, allMethods, step1 \o step2 \o step3)

verifyContract(c, sf) == buildReport(c, verifyContractResults(c, sf))


-----------------------------------------------------------------------------
(* Annotations (spec-parser.ts): the records the parser builds from a tag, *)
(* its expression and the line of the annotation.                          *)

\* the distinct captures of /this\.(\w+)\.value/g, in order
extractFieldReferences(expr) == Dedupe(ThisMatches(expr, 1, <<".", "value">>))

\* the trimmed captures of /old\(([^)]+)\)/g
RECURSIVE OldMatches(_, _)
OldMatches(t, i) ==
    IF i + 3 > Len(t) THEN <<>>
    ELSE IF /\ <<t[i]>> = <<"old">> /\ t[i + 1] = "(" /\ t[i + 2] # ")"
            /\ \E c \in (i + 3)..Len(t) : t[c] = ")"
         THEN LET c == CHOOSE k \in (i + 3)..Len(t) :
                           t[k] = ")" /\ \A j \in (i + 3)..(k - 1) : t[j] # ")"
              IN  <<Trim(SubSeq(t, i + 2, c - 1))>> \o OldMatches(t, c + 1)
         ELSE OldMatches(t, i + 1)

extractOldReferences(expr) == OldMatches(expr, 1)

\* ann.expression.trim().toUpperCase() === 'CEI', compared in lower case
isCEIExpression(expr) == toLowerCase(Trim(expr)) = toLowerCase(Text.CEI)

InvariantSpec(expr, line) ==
    [tag |-> "invariant", expression |-> expr, line |-> line,
     fieldReferences |-> extractFieldReferences(expr)]

OpnetSpec(expr, line) ==
    [tag |-> "opnet", expression |-> expr, line |-> line, constraint |-> Trim(expr)]

PreconditionSpec(tag, expr, methodName, line) ==
    [tag |-> tag, expression |-> expr, line |-> line, methodName |-> methodName]

PostconditionSpec(tag, expr, methodName, line) ==
    LET isCEI == tag = "ensures" /\ isCEIExpression(expr)
    IN  [tag |-> tag, expression |-> expr, line |-> line, methodName |-> methodName,
         isCEI |-> isCEI,
         oldReferences |-> IF isCEI THEN <<>> ELSE extractOldReferences(expr),
         fieldReferences |-> IF isCEI THEN <<>> ELSE extractFieldReferences(expr)]

AccessSpec(expr, methodName, line) ==
    [tag |-> "access", expression |-> expr, line |-> line, methodName |-> methodName,
     level |-> Trim(expr)]

\* /^(.+?)\s*:\s*(.+?)\s*->\s*(.+)$/ on the trimmed expression: the first
\* colon after which a "->" follows with text on both sides of it, and the
\* first such "->"
parseCallsSpec(expr, methodName, line) ==
    LET t == Trim(expr)
        arrows(i) == {j \in (i + 2)..(Len(t) - 2) : t[j] = "-" /\ t[j + 1] = ">"}
        colons == {i \in 2..Len(t) : t[i] = ":" /\ arrows(i) # {}}
    IN  IF colons = {}
        THEN [tag |-> "calls", expression |-> expr, line |-> line, methodName |-> methodName,
              target |-> t, calledMethod |-> <<>>, expectation |-> <<>>]
        ELSE LET i == CHOOSE k \in colons : \A l \in colons : k <= l
                 j == CHOOSE k \in arrows(i) : \A l \in arrows(i) : k <= l
             IN  [tag |-> "calls", expression |-> expr, line |-> line,
                  methodName |-> methodName,
                  target |-> Trim(SubSeq(t, 1, i - 1)),
                  calledMethod |-> Trim(SubSeq(t, i + 1, j - 1)),
                  expectation |-> Trim(SubSeq(t, j + 2, Len(t)))]

\* /^([^\->]+)\s*->\s*([^:]+):\s*(.+)$/ on the trimmed expression: the
\* first "-" or ">" of the text must begin an "->" with text before it, the
\* first ":" after the arrow must have text on both sides; then
\* /\[when\s+(.+)\]$/ on the remainder, and the remainder split on commas.
\* An annotation expression is one line, so "." meets no line break here.
parseStateTransition(expr) ==
    LET t == Trim(expr)
        marks == {i \in 1..Len(t) : t[i] \in {"-", ">"}}
        p == CHOOSE i \in marks : \A j \in marks : i <= j
        arrowOk == marks # {} /\ p >= 2 /\ p + 1 <= Len(t) /\ t[p] = "-" /\ t[p + 1] = ">"
        colons == {i \in (p + 3)..(Len(t) - 1) : t[i] = ":"}
        firstColons == {i \in (p + 2)..Len(t) : t[i] = ":"}
        c == CHOOSE i \in firstColons : \A j \in firstColons : i <= j
        matched == arrowOk /\ firstColons # {} /\ c \in colons
        rest == Trim(SubSeq(t, c + 1, Len(t)))
        whens == {i \in 1..(Len(rest) - 4) :
                     /\ rest[i] = "[" /\ rest[i + 1] = "when" /\ IsSpace(rest[i + 2])
                     /\ rest[Len(rest)] = "]"}
        w == CHOOSE i \in whens : \A j \in whens : i <= j
        names == IF whens = {} THEN rest ELSE Trim(SubSeq(rest, 1, w - 1))
        pieces == SplitOn(names, ",", <<>>)
        stripped == [i \in 1..Len(pieces) |-> DropSuffix(Trim(pieces[i]), <<"(", ")">>)]
        kept == SelectSeq(stripped, LAMBDA m : m # <<>>)
    IN  IF ~matched
        THEN [fromState |-> <<"?">>, toState |-> <<"?">>, methods |-> <<>>, condition |-> t]
        ELSE [fromState |-> Trim(SubSeq(t, 1, p - 1)),
              toState |-> Trim(SubSeq(t, p + 2, c - 1)),
              methods |-> [i \in 1..Len(kept) |-> Join(kept[i])],
              condition |-> IF whens = {} THEN <<>>
                            ELSE Trim(SubSeq(rest, w + 3, Len(rest) - 1))]

\* a StateSpec, with the transition its expression parses to
StateSpec(expr, line) ==
    [tag |-> "state", expression |-> expr, line |-> line,
     transition |-> parseStateTransition(expr)]

TemporalSpec(expr, line) ==
    [tag |-> "temporal", expression |-> expr, line |-> line,
     subject |-> SplitSpace(expr, <<>>)[1], condition |-> expr]

\* a MethodSpecs: the annotations of one method sorted by tag, the last
\* access annotation kept
buildMethodSpecs(methodName, annotations) ==
    LET ofTag(tags) == SelectSeq(annotations, LAMBDA a : a.tag \in tags)
        access == ofTag({"access"})
    IN  [methodName |-> methodName,
         access |-> IF access = <<>> THEN <<>> ELSE <<access[Len(access)]>>,
         preconditions |-> ofTag({"pre", "requires"}),
         postconditions |-> ofTag({"post", "ensures"}),
         calls |-> ofTag({"calls"}),
         stateTransitions |-> ofTag({"state"}),
         temporal |-> ofTag({"temporal"})]


SPEC_TAGS ==
    {"invariant", "pre", "requires", "post", "ensures", "state", "access", "calls",
     "temporal", "opnet"}

\* the value of a local constant: the one element of a one-element set
TheOne(S) == CHOOSE x \in S : TRUE

\* the optional comment group of ANNOTATION_RE on the text after the tag: the
\* lazy expression group ends before the first "//", and the comment group
\* takes the rest of the line. An empty comment counts as none: <<>> stands
\* for undefined.
cutComment(tag, rest) ==
    LET slashes == {q \in 1..Len(rest) : rest[q] = "//"}
        q0 == CHOOSE q \in slashes : \A r \in slashes : q <= r
    IN  [tag |-> tag,
         expression |-> IF slashes = {} THEN Trim(rest) ELSE Trim(SubSeq(rest, 1, q0 - 1)),
         comment |-> IF slashes = {} THEN <<>> ELSE Trim(SubSeq(rest, q0 + 1, Len(rest)))]

\* ANNOTATION_RE on a trimmed comment line. The match begins at the leftmost
\* "///" or "*" that white space, "@", a word and white space follow.
matchAnnotation(t) ==
    LET opened(a) ==
            /\ a >= 2
            /\ \/ t[a - 1] \in {"*", "/*"}
               \/ a >= 3 /\ t[a - 1] = "/" /\ t[a - 2] = "//"
               \/ a >= 3 /\ t[a - 1] = "//" /\ t[a - 2] \in {"//", "*/"}
        atSign(a) == IF a <= Len(t) /\ IsSpace(t[a]) THEN a + 1 ELSE a
        tagEnd(a) == WordRunEnd(t, atSign(a) + 1)
        starts == {a \in 2..Len(t) :
                      /\ opened(a)
                      /\ atSign(a) + 1 <= Len(t)
                      /\ t[atSign(a)] = "@"
                      /\ IsWord(t[atSign(a) + 1])
                      /\ tagEnd(a) + 1 <= Len(t)
                      /\ IsSpace(t[tagEnd(a) + 1])}
    IN  IF starts = {} THEN <<>>
        ELSE <<TheOne({TheOne({cutComment(Join(SubSeq(t, atSign(a0) + 1, tagEnd(a0))), rest) :
                                  rest \in {SubSeq(t, tagEnd(a0) + 2, Len(t))}}) :
                          a0 \in {a \in starts : \A b \in starts : a <= b}})>>

\* one comment line before a node: it is read when, trimmed, it begins with
\* "///", "*" or "/**", and kept when its tag is a spec tag
readLine(trimmed, line) ==
    IF \/ StartsWith(trimmed, <<"//", "/">>)
       \/ StartsWith(trimmed, <<"//", "//">>)
       \/ StartsWith(trimmed, <<"*">>)
       \/ StartsWith(trimmed, <<"/*", "*">>)
    THEN TheOne({IF m # <<>> /\ m[1].tag \in SPEC_TAGS
                 THEN <<[tag |-> m[1].tag, expression |-> m[1].expression,
                         comment |-> m[1].comment, line |-> line]>>
                 ELSE <<>> :
                     m \in {matchAnnotation(trimmed)}})
    ELSE <<>>

\* the annotations of the comment lines before a node, the first of them on
\* line firstLine
RECURSIVE parseAnnotationsFromNode(_, _)
parseAnnotationsFromNode(lines, firstLine) ==
    IF lines = <<>> THEN <<>>
    ELSE TheOne({readLine(trimmed, firstLine) : trimmed \in {Trim(Head(lines))}})
         \o parseAnnotationsFromNode(Tail(lines), firstLine + 1)

\* the typed spec buildMethodSpecs makes of one annotation, which keeps the
\* annotation's comment
methodSpecOf(a, methodName) ==
    LET spec ==
            CASE a.tag \in {"pre", "requires"} ->
                     PreconditionSpec(a.tag, a.expression, methodName, a.line)
              [] a.tag \in {"post", "ensures"} ->
                     PostconditionSpec(a.tag, a.expression, methodName, a.line)
              [] a.tag = "access" -> AccessSpec(a.expression, methodName, a.line)
              [] a.tag = "calls" -> parseCallsSpec(a.expression, methodName, a.line)
              [] a.tag = "state" -> StateSpec(a.expression, a.line)
              [] a.tag = "temporal" -> TemporalSpec(a.expression, a.line)
    IN  [comment |-> a.comment] @@ spec

RECURSIVE methodSpecsOf(_, _)
methodSpecsOf(anns, methodName) ==
    IF anns = <<>> THEN <<>>
    ELSE (IF Head(anns).tag \in {"invariant", "opnet"} THEN <<>>
          ELSE <<TheOne({methodSpecOf(a, methodName) : a \in {Head(anns)}})>>)
         \o methodSpecsOf(Tail(anns), methodName)

\* the bundles of a method declaration: none without annotations, else one
\* built from the annotations whose tag buildMethodSpecs handles
parseMethodSpecs(m) ==
    TheOne({IF anns = <<>> THEN <<>>
            ELSE TheOne({<<buildMethodSpecs(m.name, specs)>> :
                            specs \in {methodSpecsOf(anns, m.name)}}) :
                anns \in {parseAnnotationsFromNode(m.doc, m.docLine)}})

\* the typed spec parseClassSpecs makes of one class-level annotation: none
\* for a tag other than invariant, state and opnet
classSpecOf(a) ==
    CASE a.tag = "invariant" ->
             <<[comment |-> a.comment] @@ InvariantSpec(a.expression, a.line)>>
      [] a.tag = "state" -> <<[comment |-> a.comment] @@ StateSpec(a.expression, a.line)>>
      [] a.tag = "opnet" -> <<[comment |-> a.comment] @@ OpnetSpec(a.expression, a.line)>>
      [] OTHER -> <<>>

\* the typed specs of the annotations of ann that carry one of the tags
RECURSIVE classSpecsOf(_, _)
classSpecsOf(anns, tags) ==
    IF anns = <<>> THEN <<>>
    ELSE (IF Head(anns).tag \in tags
          THEN TheOne({classSpecOf(a) : a \in {Head(anns)}}) ELSE <<>>)
         \o classSpecsOf(Tail(anns), tags)

-----------------------------------------------------------------------------
(* Inputs: declarations and annotations built from the catalogue.          *)

\* the sequences over S of length at most n
RECURSIVE SeqsUpTo(_, _)
SeqsUpTo(S, n) ==
    IF n = 0 THEN {<<>>}
    ELSE LET r == SeqsUpTo(S, n - 1)
         IN  r \cup {Append(s, x) : s \in {q \in r : Len(q) = n - 1}, x \in S}

MethodDecl(name, sig, stmts) ==
    [name |-> name, sig |-> sig, hasBody |-> TRUE, stmts |-> stmts]

\* a method declared without a body (an overload or abstract signature)
BodilessMethod(name, sig) ==
    [name |-> name, sig |-> sig, hasBody |-> FALSE, stmts |-> <<>>]

\* the declarations a method named name can have over the statements S
MethodDecls(name, sig, S) ==
    {MethodDecl(name, sig, b) : b \in SeqsUpTo(S, MaxStmts)} \cup {BodilessMethod(name, sig)}

VaultProps ==
    <<Prop.DepositSelector, Prop.Balance, Prop.Fee, Prop.Owner, Prop.TokenAddress,
      Prop.ListingPriceMap, Prop.Cache>>

BrokenVault(methods) ==
    [name |-> "BrokenVault", head |-> Text.HeadBrokenVault, props |-> VaultProps,
     methods |-> methods]

\* the class with other property declarations
VaultWith(props, methods) ==
    [name |-> "BrokenVault", head |-> Text.HeadBrokenVault, props |-> props,
     methods |-> methods]

\* BrokenVault.deposit, the statements of it that the verifier's searches
\* can tell apart
DepositMethod ==
    MethodDecl("deposit", Text.SigDeposit,
               <<Stmt.IfZero, Stmt.Sender, Stmt.Selector, Stmt.VarCall, Stmt.IfNotSuccess,
                 Stmt.WriteBalance, Stmt.ReadBalance, Stmt.Return>>)

\* BrokenVault.withdraw, likewise
WithdrawMethod ==
    MethodDecl("withdraw", Text.SigWithdraw,
               <<Stmt.IfZero, Stmt.Sender, Stmt.Selector, Stmt.Call, Stmt.ReadBalance,
                 Stmt.Return>>)

ContractSpecs(className, invariants, opnetConstraints, stateTransitions, methods) ==
    [className |-> className, invariants |-> invariants,
     opnetConstraints |-> opnetConstraints, stateTransitions |-> stateTransitions,
     methods |-> methods]

\* a contract whose only annotation is one annotation of one method
OneSpec(methodName, annotation) ==
    ContractSpecs("BrokenVault", <<>>, <<>>, <<>>,
                  <<buildMethodSpecs(methodName, <<annotation>>)>>)

\* the CoverageInfo computeCoverage starts from
emptyCoverage(contractName) ==
    [contractName |-> contractName, totalMethods |-> 0, specifiedMethods |-> 0,
     totalFields |-> 0, invariantCoveredFields |-> 0, methods |-> <<>>]

\* the entry of one method in the methods list of a CoverageInfo
methodCoverage(c, m) ==
    LET specs == SelectSeq(c.methods, LAMBDA b : b.methodName = getMethodName(m))
        found == specs # <<>>
    IN  [name |-> getMethodName(m),
         hasPreConditions |-> found /\ specs[Len(specs)].preconditions # <<>>,
         hasPostConditions |-> found /\ specs[Len(specs)].postconditions # <<>>,
         hasAccessSpec |-> found /\ specs[Len(specs)].access # <<>>,
         hasCallsSpec |-> found /\ specs[Len(specs)].calls # <<>>,
         hasCEI |-> found /\ \E i \in 1..Len(specs[Len(specs)].postconditions) :
                                specs[Len(specs)].postconditions[i].isCEI]

\* computeCoverage: the counts of the class named as the contract, its
\* methods other than constructor and execute, and the fields its
\* invariants reference
computeCoverage(c, sf) ==
    LET found == SelectSeq(findClassDeclarations(sf),
                           LAMBDA k : getClassName(k) = c.className)
        counted == SelectSeq(getClassMethods(found[1]),
                             LAMBDA m : getMethodName(m) \notin {"constructor", "execute"})
        specsOf(m) == SelectSeq(c.methods, LAMBDA b : b.methodName = getMethodName(m))
        coveredFields ==
            UNION {Range(c.invariants[i].fieldReferences) : i \in 1..Len(c.invariants)}
    IN  IF found = <<>> THEN emptyCoverage(c.className)
        ELSE [contractName |-> c.className,
              totalMethods |-> Len(counted),
              specifiedMethods |-> Len(SelectSeq(counted, LAMBDA m : specsOf(m) # <<>>)),
              totalFields |-> Cardinality(DOMAIN detectStoredFields(found[1])),
              invariantCoveredFields |-> Cardinality(coveredFields),
              methods |-> [i \in 1..Len(counted) |-> methodCoverage(c, counted[i])]]

\* no coverage computed yet
NoCoverage == emptyCoverage("")

NoReport ==
    [contractName |-> "", results |-> <<>>,
     summary |-> [verified |-> 0, unverified |-> 0, violated |-> 0, missing |-> 0,
                  total |-> 0]]

\* a spec tree of contracts, each with the source file it was parsed from, and
\* the contract and source file of a direct call of verifyContract; -1 stands
\* for a process that has not exited
StartTree(tree, sf, c) ==
    /\ sourceFile = sf
    /\ contract = c
    /\ results = <<>>
    /\ report = NoReport
    /\ pc = "ready"
    /\ specTree = tree
    /\ reports = <<>>
    /\ exitCode = -1
    /\ unassociated = <<>>
    /\ coverage = NoCoverage

Start(sf, c) == StartTree(<<[contract |-> c, sourceFile |-> sf]>>, sf, c)

\* the reports of the contracts of a tree, in the order of the tree, where
\* every result list is carried over into the next contract's report
verifyTreeCarryOver(tree) ==
    [i \in 1..Len(tree) |->
        buildReport(tree[i].contract,
                    Flatten([k \in 1..i |->
                        verifyContractResults(tree[k].contract, tree[k].sourceFile)]))]

\* the loop of the verify command: one report per contract, in tree order
verifyTree(tree) ==
    [i \in 1..Len(tree) |-> verifyContract(tree[i].contract, tree[i].sourceFile)]

\* an exit code that looks at the first report only
exitCodeOfFirst(rs) == IF rs # <<>> /\ rs[1].summary.violated > 0 THEN 1 ELSE 0

\* reports.some((r) => r.summary.violated > 0) ? 1 : 0
exitCodeOf(rs) == IF \E i \in 1..Len(rs) : rs[i].summary.violated > 0 THEN 1 ELSE 0

-----------------------------------------------------------------------------
(* The state machine: a call of verifyContract on a parsed contract, and   *)
(* the verify command over a spec tree.                                    *)

VerifyContract ==
    /\ pc = "ready"
    /\ report' = verifyContract(contract, sourceFile)
    /\ results' = report'.results
    /\ pc' = "done"
    /\ UNCHANGED <<sourceFile, contract, specTree, reports, exitCode, unassociated, coverage>>

\* the verify command running to its end: no specifications, or one report
\* per contract and the exit code of the reports
VerifyCommand ==
    /\ pc = "ready"
    /\ reports' = verifyTree(specTree)
    /\ exitCode' = IF specTree = <<>> THEN 0 ELSE exitCodeOf(reports')
    /\ pc' = "exited"
    /\ UNCHANGED <<sourceFile, contract, results, report, specTree, unassociated, coverage>>

\* the verify command when parsing the path or reading a source file throws:
\* the catch clause
VerifyCommandThrows ==
    /\ pc = "ready"
    /\ exitCode' = 2
    /\ pc' = "failed"
    /\ UNCHANGED <<sourceFile, contract, results, report, specTree, reports, unassociated,
                   coverage>>

\* the coverage command on one contract of the file
ComputeCoverage ==
    /\ pc = "ready"
    /\ coverage' = computeCoverage(contract, sourceFile)
    /\ pc' = "covered"
    /\ UNCHANGED <<sourceFile, contract, results, report, specTree, reports, exitCode,
                   unassociated>>

Next == VerifyContract \/ VerifyCommand \/ VerifyCommandThrows \/ ComputeCoverage

\* contract-level inputs: a contract named as the class or not, with
\* invariants, constraints, transitions and method bundles
ContractStmts == {Stmt.WriteFee, Stmt.IfZero, Stmt.ReadBalance, Stmt.CommentMissing}

InvariantLists ==
    {<<>>,
     <<InvariantSpec(Text.FeeCap, 24)>>,
     <<InvariantSpec(Text.SupplyFixed, 24)>>,
     <<InvariantSpec(Text.TotalPositive, 24)>>,
     <<InvariantSpec(Text.BalanceCoversFee, 24), InvariantSpec(Text.FeeCap, 25)>>}

OpnetLists == {<<>>, <<OpnetSpec(<<"no", "-", "approve">>, 27)>>}

\* class-level transitions: one naming a declared and an undeclared method,
\* one that does not parse, one with a condition
TransitionLists ==
    {<<>>,
     <<StateSpec(Text.TransitionSetFeeSweep, 28)>>,
     <<StateSpec(Text.TransitionMalformed, 28)>>,
     <<StateSpec(Text.TransitionDepositWhen, 28)>>}

SetFeeSpecs ==
    buildMethodSpecs("setFee",
        <<AccessSpec(Text.LevelDeployerOnly, "setFee", 61),
          PreconditionSpec("pre", Text.NotZero, "setFee", 62),
          PostconditionSpec("post", Text.FeeIsNew, "setFee", 63),
          TemporalSpec(Text.TemporalDeposit, 64)>>)

\* annotations of a method the class does not declare
SweepSpecs ==
    buildMethodSpecs("sweep",
        <<AccessSpec(Text.LevelOwnerOnly, "sweep", 140),
          PostconditionSpec("ensures", Text.CEI, "sweep", 141),
          TemporalSpec(Text.TemporalDeposit, 142)>>)

\* bundles that carry a transition of their own
SetFeeStateSpecs ==
    buildMethodSpecs("setFee",
        <<AccessSpec(Text.LevelDeployerOnly, "setFee", 61),
          StateSpec(Text.TransitionSetFeeSweep, 62),
          TemporalSpec(Text.TemporalDeposit, 64)>>)

SweepStateSpecs ==
    buildMethodSpecs("sweep",
        <<PreconditionSpec("requires", Text.NotZero, "sweep", 140),
          StateSpec(Text.TransitionSweep, 141),
          StateSpec(Text.TransitionMalformed, 142),
          TemporalSpec(Text.TemporalDeposit, 143)>>)

MethodSpecLists ==
    {<<>>, <<SetFeeSpecs>>, <<SweepSpecs, SetFeeSpecs>>, <<SetFeeStateSpecs>>,
     <<SweepStateSpecs, SetFeeStateSpecs>>}

\* the ContractSpecs of a class: its own annotations, the bundles of its
\* methods, and the transitions of the bundles promoted to the contract
parseClassSpecs(className, invariants, opnetConstraints, stateTransitions, methods) ==
    ContractSpecs(className, invariants, opnetConstraints,
                  stateTransitions
                  \o Flatten([i \in 1..Len(methods) |-> methods[i].stateTransitions]),
                  methods)

\* a contract that keeps every class
hasSpecsAlways(c) == TRUE

\* whether a contract has any spec at all
hasSpecs(c) ==
    \/ c.invariants # <<>>
    \/ c.stateTransitions # <<>>
    \/ c.opnetConstraints # <<>>
    \/ c.methods # <<>>

\* parseClassSpecs on a class declaration: the contract of its annotations
\* and of those of its methods, or none when it has no spec at all
parseClassDeclaration(classDecl) ==
    TheOne({TheOne({IF hasSpecs(c) THEN <<c>> ELSE <<>> :
                        c \in {parseClassSpecs(getClassName(classDecl),
                                               classSpecsOf(anns, {"invariant"}),
                                               classSpecsOf(anns, {"opnet"}),
                                               classSpecsOf(anns, {"state"}),
                                               Flatten([i \in 1..Len(classDecl.methods) |->
                                                   parseMethodSpecs(classDecl.methods[i])]))}}) :
               anns \in {parseAnnotationsFromNode(classDecl.doc, classDecl.docLine)}})

\* parseSource on the statements of a file: the contracts of its classes,
\* then the invariant and opnet annotations before the first statement added
\* to the first contract, or kept as unassociated when there is no contract
parseSource(statements) ==
    LET classes == findClassDeclarations(statements)
        attach(contracts, anns) ==
            IF contracts = <<>>
            THEN [contracts |-> <<>>, unassociated |-> anns]
            ELSE [contracts |->
                      <<[contracts[1] EXCEPT
                            !.invariants = @ \o classSpecsOf(anns, {"invariant"}),
                            !.opnetConstraints = @ \o classSpecsOf(anns, {"opnet"})]>>
                      \o Tail(contracts),
                  unassociated |-> <<>>]
    IN  IF statements = <<>> THEN [contracts |-> <<>>, unassociated |-> <<>>]
        ELSE TheOne({attach(contracts, anns) :
                        contracts \in {Flatten([i \in 1..Len(classes) |->
                                                   parseClassDeclaration(classes[i])])},
                        anns \in {SelectSeq(parseAnnotationsFromNode(statements[1].doc,
                                                                     statements[1].docLine),
                                            LAMBDA a : a.tag \in {"opnet", "invariant"})}})

Init ==
    \E className \in {"BrokenVault", "Ghost"}, invs \in InvariantLists,
       opnets \in OpnetLists, sts \in TransitionLists, ms \in MethodSpecLists,
       setFee \in MethodDecls("setFee", Text.SigSetFee, ContractStmts) :
        Start(<<BrokenVault(<<setFee, DepositMethod>>)>>,
              parseClassSpecs(className, invs, opnets, sts, ms))

Spec == Init /\ [][Next]_vars


-----------------------------------------------------------------------------
(* Properties.                                                             *)

Done == pc = "done"

\* the class the contract names is not declared in the source file
ClassAbsent ==
    \A i \in 1..Len(sourceFile) : getClassName(sourceFile[i]) # contract.className

ClassFound == ~ClassAbsent

\* the specs of a method bundle, and all the specs attached to a contract
bundleSpecs(b) ==
    b.access \o b.preconditions \o b.postconditions \o b.calls \o b.stateTransitions
    \o b.temporal

attachedSpecs(c) ==
    c.invariants \o c.opnetConstraints \o c.stateTransitions
    \o Flatten([i \in 1..Len(c.methods) |-> bundleSpecs(c.methods[i])])

\* the results emitted for one spec
resultsFor(s) == SelectSeq(results, LAMBDA r : sameSpec(r.spec, s))

\* C1: when the contract's class name matches no class declaration, every
\* spec attached to the contract (invariants, domain constraints,
\* contract-level state transitions and all the specs of every method
\* bundle) yields exactly one result, with status MISSING, and nothing else
\* is emitted: the number of results is the contract's spec count.
C1_ClassNotFoundAllMissing ==
    (Done /\ ClassAbsent) =>
        /\ Len(results) = Len(attachedSpecs(contract))
        /\ \A i \in 1..Len(results) : results[i].status = "MISSING"
        /\ \A i \in 1..Len(attachedSpecs(contract)) :
               Len(resultsFor(attachedSpecs(contract)[i])) = 1


-----------------------------------------------------------------------------
(* Input families for the method-level verifiers: one class, one method,   *)
(* one annotation.                                                         *)

OneMethod(m, annotation) ==
    Start(<<BrokenVault(<<m>>)>>, OneSpec(m.name, annotation))

AccessLevels ==
    {Text.LevelDeployerOnly, Text.LevelDeployerOnlyCaps, Text.LevelOwnerOnly,
     Text.LevelAnyone, Text.LevelAdminOnly}

AccessStmts ==
    {Stmt.OnlyDeployer, Stmt.EnsureOwner, Stmt.OnlyOwner, Stmt.IfNotOwner, Stmt.Sender,
     Stmt.CommentMissing, Stmt.CommentNoAccess, Stmt.CommentBlock, Stmt.WriteFee}

InitAccess ==
    \E level \in AccessLevels, m \in MethodDecls("setFee", Text.SigSetFee, AccessStmts) :
        OneMethod(m, AccessSpec(level, m.name, 61))

SpecAccess == InitAccess /\ [][Next]_vars

PreExprs ==
    {Text.EnsureOwner, Text.OnlyDeployer, Text.EnsureActive, Text.StatusActive, Text.NotZero,
     Text.BalanceGeAmount, Text.NotPaused, Text.BalanceFeeReserve, Text.AmountTwice,
     Text.ShortTerms}

PreStmts ==
    {Stmt.OnlyDeployer, Stmt.EnsureOwner, Stmt.EnsureActive, Stmt.RequireActiveListing,
     Stmt.IfZero, Stmt.IfInsufficient, Stmt.IfFeeHigh, Stmt.WriteFee, Stmt.ReadBalance}

InitPre ==
    \E tag \in {"pre", "requires"}, expr \in PreExprs,
       m \in MethodDecls("withdraw", Text.SigWithdraw, PreStmts) :
        OneMethod(m, PreconditionSpec(tag, expr, m.name, 109))

SpecPre == InitPre /\ [][Next]_vars

PostExprs ==
    {Text.CEI, Text.CeiLower, Text.BalanceGrows, Text.FeeIsNew, Text.ReturnPositive,
     Text.ReturnIsOld, Text.ReturnIsOldBalance, Text.ResultIsOld}

PostStmts ==
    {Stmt.VarCall, Stmt.Call, Stmt.IfNotSuccess, Stmt.WriteBalance, Stmt.AddBalance,
     Stmt.WriteCache, Stmt.SetMap, Stmt.WriteFee, Stmt.ReadBalance, Stmt.Return}

InitPost ==
    \E tag \in {"post", "ensures"}, expr \in PostExprs,
       m \in MethodDecls("deposit", Text.SigDeposit, PostStmts) \cup {DepositMethod} :
        OneMethod(m, PostconditionSpec(tag, expr, m.name, 76))

SpecPost == InitPost /\ [][Next]_vars

\* <target> : <method>(<args>) -> <expectation>, and a bare target
CallsExprs ==
    {target \o <<" ", ":", " ">> \o called \o <<" ", "-", ">", " ">> \o expectation :
        target \in {Text.TargetTokenAddress, Text.TargetFeeDestination, Text.TargetPill},
        called \in {Text.CalledTransferFrom, Text.CalledTransfer, Text.CalledSwap},
        expectation \in {Text.MustSucceed, Text.MayFail}}
    \cup {Text.TargetTokenAddress, Text.TargetFeeDestination}

CallsStmts ==
    {Stmt.VarCall, Stmt.Call, Stmt.IfNotSuccess, Stmt.IfZero, Stmt.Selector,
     Stmt.WriteBalance, Stmt.Return}

InitCalls ==
    \E expr \in CallsExprs,
       m \in MethodDecls("withdraw", Text.SigWithdraw, CallsStmts)
                 \cup {WithdrawMethod, DepositMethod} :
        OneMethod(m, parseCallsSpec(expr, m.name, 110))

SpecCalls == InitCalls /\ [][Next]_vars

\* inputs of parseCallsSpec: expressions of the documented shape, with a
\* second arrow, with a second colon, without a colon or an arrow, with the
\* arrow before the colon, without white space, and a bare target
InitCallsShapes ==
    \E expr \in {Text.CallsTwoArrows, Text.CallsTwoColons, Text.CallsNoColon,
                  Text.CallsNoArrow, Text.CallsArrowFirst, Text.CallsDense,
                  Text.CallsColonArrow, Text.TargetFeeDestination,
                  Text.TargetFeeDestination \o <<" ", ":", " ">> \o Text.CalledTransfer
                      \o <<" ", "-", ">", " ">> \o Text.MustSucceed},
       m \in MethodDecls("withdraw", Text.SigWithdraw,
                         {Stmt.VarCall, Stmt.IfNotSuccess, Stmt.Return}) :
        OneMethod(m, parseCallsSpec(expr, m.name, 110))

SpecCallsShapes == InitCallsShapes /\ [][Next]_vars

\* inputs of the annotation parser: a method with one comment line before
\* it, with no, one or two "//" after the tag, in "///" and JSDoc form, with
\* a tag that is no spec tag, and lines the pattern does not match
InitAnnotations ==
    \E line \in {Text.LinePreComment, Text.LinePreTwoComments, Text.LinePreUrl,
                 Text.LineRequiresPlain, Text.LineAccessJsdoc, Text.LineTemporalOpen,
                 Text.LinePreOnlyComment, Text.LineNote, Text.LineTwoSlashes,
                 Text.LinePreBare, Text.LinePostPadded, Text.LineFourSlashes},
       d \in MethodDecls("withdraw", Text.SigWithdraw,
                         {Stmt.IfZero, Stmt.WriteBalance, Stmt.OnlyDeployer}) :
        \E m \in {[doc |-> <<line>>, docLine |-> 109] @@ d} :
            \E c \in {TheOne({parseClassSpecs("BrokenVault", <<>>, <<>>, <<>>, ms) :
                                 ms \in {parseMethodSpecs(m)}})} :
                StartTree(IF c.methods = <<>> THEN <<>>
                          ELSE <<[contract |-> c, sourceFile |-> <<BrokenVault(<<m>>)>>]>>,
                          <<BrokenVault(<<m>>)>>, c)

SpecAnnotations == InitAnnotations /\ [][Next]_vars

\* inputs of parseStateTransition: one class-level transition of the
\* documented shape, with and without a when-clause, with empty and
\* parameterised method items, with a hyphenated state name, with a second
\* arrow, and without a source, a target, a colon or methods
InitTransitions ==
    \E expr \in {Text.TransitionSetFeeSweep, Text.TransitionDepositWhen,
                 Text.TransitionMalformed, Text.TransitionHyphen, Text.TransitionNoTarget,
                 Text.TransitionItems, Text.TransitionNoColon, Text.TransitionNoSource,
                 Text.TransitionChain, Text.TransitionNoMethods},
       m \in MethodDecls("setFee", Text.SigSetFee,
                         {Stmt.OnlyDeployer, Stmt.WriteFee, Stmt.Return}) :
        Start(<<BrokenVault(<<m, DepositMethod>>)>>,
              parseClassSpecs("BrokenVault", <<>>, <<>>, <<StateSpec(expr, 28)>>, <<>>))

SpecTransitions == InitTransitions /\ [][Next]_vars

\* inputs of parseSource: files of an import and two classes, of two classes,
\* and of an import alone; comment lines before the first statement, before
\* the first class, before its method and before the second class
InitSource ==
    LET Documented(lines, firstLine, node) == [doc |-> lines, docLine |-> firstLine] @@ node
        FileDocs ==
            {<<>>, <<Text.LineInvariantFee>>, <<Text.LineRequiresPlain>>,
             <<Text.LineOpnetNoApprove, Text.LineInvariantFee>>,
             <<Text.LineTemporalDeposit, Text.LineOpnetNoApprove>>}
        ClassDocs ==
            {<<>>, <<Text.LineInvariantFee>>, <<Text.LineStateSetFee>>,
             <<Text.LineOpnetNoApprove, Text.LineTemporalDeposit>>}
        MethodDocs == {<<>>, <<Text.LineAccessDeployer>>, <<Text.LineInvariantFee>>}
        Import(fd) == Documented(fd, 1, [text |-> Text.ImportRuntime])
        Vault(cd, md) ==
            Documented(cd, 20,
                       BrokenVault(<<Documented(md, 40, MethodDecl("setFee", Text.SigSetFee,
                                                                  <<Stmt.WriteFee>>))>>))
        Treasury(cd) ==
            Documented(cd, 60, [name |-> "Treasury", head |-> Text.HeadTreasury,
                                props |-> VaultProps, methods |-> <<>>])
        Files ==
            {<<Import(fd), Vault(cd, md), Treasury(td)>> :
                fd \in FileDocs, cd \in ClassDocs, md \in MethodDocs, td \in ClassDocs}
            \cup {<<Vault(cd, md), Treasury(td)>> :
                     cd \in ClassDocs, md \in MethodDocs, td \in ClassDocs}
            \cup {<<Import(fd)>> : fd \in FileDocs}
    IN  \E statements \in Files :
            \E tree \in {parseSource(statements)} :
                /\ sourceFile = statements
                /\ contract = IF tree.contracts = <<>>
                              THEN ContractSpecs("BrokenVault", <<>>, <<>>, <<>>, <<>>)
                              ELSE tree.contracts[1]
                /\ results = <<>>
                /\ report = NoReport
                /\ pc = "ready"
                /\ specTree = [i \in 1..Len(tree.contracts) |->
                                  [contract |-> tree.contracts[i], sourceFile |-> statements]]
                /\ reports = <<>>
                /\ exitCode = -1
                /\ unassociated = tree.unassociated
                /\ coverage = NoCoverage

SpecSource == InitSource /\ [][Next]_vars

\* inputs of computeCoverage: a contract named as the class or not, over
\* classes with all, one and none of the stored fields, with and without an
\* execute method, and bundles of declared, undeclared and skipped methods
InitCoverage ==
    LET SetFee == MethodDecl("setFee", Text.SigSetFee, <<Stmt.WriteFee>>)
        Execute == MethodDecl("execute", Text.SigExecute, <<Stmt.Return>>)
        ExecuteSpecs ==
            buildMethodSpecs("execute", <<AccessSpec(Text.LevelAnyone, "execute", 50)>>)
    IN  \E className \in {"BrokenVault", "Ghost"}, invs \in InvariantLists,
           props \in {VaultProps, <<Prop.Balance>>, <<>>},
           methods \in {<<>>, <<SetFee>>, <<SetFee, DepositMethod>>,
                        <<Execute, SetFee, DepositMethod>>},
           ms \in MethodSpecLists \cup {<<ExecuteSpecs>>, <<ExecuteSpecs, SetFeeSpecs>>} :
            Start(<<VaultWith(props, methods)>>, parseClassSpecs(className, invs, <<>>, <<>>, ms))

SpecCoverage == InitCoverage /\ [][Next]_vars

\* inputs of verifyOpnetConstraint: one domain constraint of the class, known
\* or not, over class texts with and without the patterns it searches
InitOpnet ==
    LET OpnetExprs ==
            {Text.OpnetNoApprove, Text.OpnetNoApproveCaps, Text.OpnetCsvTimelocks,
             Text.OpnetCsvTimelocksPadded, Text.OpnetSelectorsSha256,
             Text.OpnetAddressTwoParams, Text.OpnetMaxGas}
        OpnetStmts ==
            {Stmt.Approve, Stmt.IncreaseAllowance, Stmt.FromStringOne, Stmt.FromStringTwo,
             Stmt.Selector}
        OpnetProps == {VaultProps, <<Prop.HardSelector, Prop.Balance>>, <<Prop.Balance>>}
    IN  \E e \in OpnetExprs, props \in OpnetProps,
           m \in MethodDecls("setFee", Text.SigSetFee, OpnetStmts) :
            Start(<<VaultWith(props, <<m>>)>>,
                  parseClassSpecs("BrokenVault", <<>>, <<OpnetSpec(e, 27)>>, <<>>, <<>>))

SpecOpnet == InitOpnet /\ [][Next]_vars

\* inputs of the verify command: spec trees of contracts, the same contract
\* twice included, each over the class with or without a guard
InitVerify ==
    LET TreeContracts ==
            {parseClassSpecs("BrokenVault", invs, <<>>, sts, ms) :
                 invs \in {<<>>, <<InvariantSpec(Text.FeeCap, 24)>>},
                 sts \in {<<>>, <<StateSpec(Text.TransitionSetFeeSweep, 28)>>},
                 ms \in {<<>>, <<SetFeeSpecs>>, <<SweepSpecs>>}}
        TreeSources ==
            {<<BrokenVault(<<MethodDecl("setFee", Text.SigSetFee, b), DepositMethod>>)>> :
                 b \in {<<Stmt.WriteFee>>, <<Stmt.OnlyDeployer, Stmt.IfZero, Stmt.WriteFee>>}}
        TreeEntries ==
            {[contract |-> c, sourceFile |-> sf] : c \in TreeContracts, sf \in TreeSources}
    IN  \E tree \in SeqsUpTo(TreeEntries, MaxContracts) :
            StartTree(tree, <<BrokenVault(<<DepositMethod>>)>>,
                      parseClassSpecs("BrokenVault", <<>>, <<>>, <<>>, <<>>))

SpecVerify == InitVerify /\ [][Next]_vars


\* the declaration of the class the contract names, and of a method of it
theClass ==
    sourceFile[CHOOSE i \in 1..Len(sourceFile) :
                   getClassName(sourceFile[i]) = contract.className]

hasMethod(name) == \E i \in 1..Len(theClass.methods) : theClass.methods[i].name = name

methodNamed(name) ==
    theClass.methods[CHOOSE i \in 1..Len(theClass.methods) : theClass.methods[i].name = name]

\* the results about a spec of tag tags on a method the class declares
IsResultOn(r, tags) == r.spec.tag \in tags /\ ClassFound /\ hasMethod(r.spec.methodName)

\* the syntax nodes of a method body: external-call sites, and writes to a
\* stored field (an assignment to this.<f>.value, a call of this.<f>.set)
IsCallSite(n) == n.type = "call" /\ n.head = <<"Blockchain", ".", "call">>

IsStoredWrite(n) ==
    \E i \in 1..Len(theClass.props) :
        /\ IsStoredProp(theClass.props[i])
        /\ \/ n.type = "assign" /\ n.op = "="
              /\ n.head = <<"this", ".">> \o theClass.props[i].name \o <<".", "value">>
           \/ n.type = "call"
              /\ n.head = <<"this", ".">> \o theClass.props[i].name \o <<".", "set">>

WriteAfterCall(m) ==
    \E c, w \in 1..Len(walkTree(m)) :
        /\ IsCallSite(walkTree(m)[c])
        /\ IsStoredWrite(walkTree(m)[w])
        /\ walkTree(m)[w].pos > walkTree(m)[c].pos

\* C2: an `ensures CEI` spec on an existing method is VIOLATED exactly when
\* the body has an external-call site and a write to a stored field whose
\* position is greater than the position of some external call, and is
\* VERIFIED in every other case (no call, no write, every write before
\* every call).
C2_CeiVerdict ==
    Done => \A i \in 1..Len(results) :
        (IsResultOn(results[i], {"ensures"}) /\ results[i].spec.isCEI) =>
            results[i].status =
                IF WriteAfterCall(methodNamed(results[i].spec.methodName))
                THEN "VIOLATED" ELSE "VERIFIED"

\* a CEI spec is reported VIOLATED for a method that writes a stored field
\* after an external call
C2_Witness ==
    /\ Done
    /\ \E i \in 1..Len(results) :
           /\ IsResultOn(results[i], {"ensures"}) /\ results[i].spec.isCEI
           /\ WriteAfterCall(methodNamed(results[i].spec.methodName))
           /\ results[i].status = "VIOLATED"

\* a method body without its comments, and its text
WithoutComments(m) == [m EXCEPT !.stmts = SelectSeq(@, LAMBDA s : s.kind # "trivia")]

codeText(m) == getMethodBodyText(WithoutComments(m))

\* the verdict verifyAccess is described to give for a level and the code
\* of a method body
AccessTable(level, code) ==
    IF level = Text.LevelDeployerOnly
    THEN IF \/ Includes(code, <<"only", "Deployer">>)
            \/ /\ Includes(code, <<"Blockchain", ".", "tx", ".", "sender">>)
               /\ Includes(code, <<"deployer">>) \/ Includes(code, <<"owner">>)
         THEN "VERIFIED" ELSE "VIOLATED"
    ELSE IF level = Text.LevelOwnerOnly
    THEN IF \/ Includes(code, <<"ensure", "Owner">>) \/ Includes(code, <<"only", "Owner">>)
            \/ /\ Includes(code, <<"Blockchain", ".", "tx", ".", "sender">>)
               /\ Includes(code, <<"this", ".", "owner", ".", "value">>)
         THEN "VERIFIED" ELSE "VIOLATED"
    ELSE IF level = Text.LevelAnyone
    THEN IF \/ Includes(code, <<"only", "Deployer">>) \/ Includes(code, <<"ensure", "Owner">>)
            \/ Includes(code, <<"only", "Owner">>)
         THEN "VIOLATED" ELSE "VERIFIED"
    ELSE "UNVERIFIED"

\* C3: verifyAccess gives, for deployer-only and owner-only, VERIFIED if the
\* method body contains the matching guard-helper name or the manual
\* sender/owner pattern and VIOLATED otherwise; for anyone, VIOLATED if a
\* deployer/owner guard-helper name appears in the body and VERIFIED
\* otherwise; for any other level UNVERIFIED; and never MISSING.  The body
\* is the code of the body: what a comment says is not in it.
C3_AccessTable ==
    Done => \A i \in 1..Len(results) :
        IsResultOn(results[i], {"access"}) =>
            /\ results[i].status # "MISSING"
            /\ results[i].status =
                   AccessTable(toLowerCase(results[i].spec.level),
                               codeText(methodNamed(results[i].spec.methodName)))

\* C4: the access verdict of a method does not depend on the comments in
\* its body, for every level: the method and the method without its
\* comments receive the same verdict.
C4_CommentsDoNotMatter ==
    Done => \A i \in 1..Len(results) :
        IsResultOn(results[i], {"access"}) =>
            results[i].status =
                verifyAccess(results[i].spec,
                             WithoutComments(methodNamed(results[i].spec.methodName))).status


\* the methods of the class whose body text mentions a field of the
\* invariant as this.<f>.value or this.<f>.set
touchingMethods(inv) ==
    {i \in 1..Len(theClass.methods) :
        \E k \in 1..Len(inv.fieldReferences) :
            \/ Includes(getMethodBodyText(theClass.methods[i]),
                        <<"this", ".">> \o inv.fieldReferences[k] \o <<".", "value">>)
            \/ Includes(getMethodBodyText(theClass.methods[i]),
                        <<"this", ".">> \o inv.fieldReferences[k] \o <<".", "set">>)}

allHave(rs, status) == \A i \in 1..Len(rs) : rs[i].status = status

hasReturnStatement(m) == \E i \in 1..Len(m.stmts) : m.stmts[i].kind = "return"

IsNonCeiResult(r) == IsResultOn(r, {"post", "ensures"}) /\ ~r.spec.isCEI

\* C6: a postcondition other than `ensures CEI` on an existing method is
\* never VERIFIED: it is VIOLATED only when its expression mentions the
\* return value and the body has no return statement, and UNVERIFIED
\* otherwise.
C6_PostNeverVerified ==
    Done => \A i \in 1..Len(results) :
        IsNonCeiResult(results[i]) =>
            /\ results[i].status \in {"VIOLATED", "UNVERIFIED"}
            /\ results[i].status = "VIOLATED" =>
                   /\ Includes(results[i].spec.expression, <<"return">>)
                   /\ ~hasReturnStatement(methodNamed(results[i].spec.methodName))

\* a postcondition about the return value of a method that returns nothing
\* is reported VIOLATED
C6_Witness ==
    /\ Done
    /\ \E i \in 1..Len(results) :
           /\ IsNonCeiResult(results[i])
           /\ results[i].spec.oldReferences = <<>>
           /\ Includes(results[i].spec.expression, <<"return">>)
           /\ results[i].status = "VIOLATED"

mentionsOld(r) == Includes(r.spec.expression, <<"old", "(">>)

fieldsWritten(r) ==
    \A k \in 1..Len(extractFieldReferences(r.spec.expression)) :
        LET f == extractFieldReferences(r.spec.expression)[k]
            bodyText == getMethodBodyText(methodNamed(r.spec.methodName))
        IN  \/ Includes(bodyText, <<"this", ".">> \o f \o <<".", "value">>)
            \/ Includes(bodyText, <<"this", ".">> \o f \o <<".", "set">>)

returnMissing(r) ==
    /\ Includes(r.spec.expression, <<"return">>)
    /\ ~Includes(getMethodBodyText(methodNamed(r.spec.methodName)), <<"return">>)

namedHelpers(expr) ==
    {h \in {<<"ensure", "Owner">>, <<"only", "Deployer">>, <<"ensure", "Active">>} :
        Includes(expr, h)}

\* the verdict of the cascade as described, for an expression and a method
PreCascade(expr, m) ==
    LET bodyText == getMethodBodyText(m)
        concernsStatus ==
            \/ Includes(expr, <<"status">>) \/ Includes(expr, <<"STATUS">>)
            \/ Includes(expr, <<"state">>)
        helperPresent ==
            \E h \in {<<"ensure", "Active">>, <<"ensure", "Owner">>, <<"require", "Active">>,
                      <<"require", "Status">>, <<"only", "Active">>, <<"only", "Deployer">>} :
                Includes(bodyText, h)
        terms == extractKeyTerms(expr)
        overlap(g) ==
            Len(SelectSeq(terms, LAMBDA t : t \in Range(extractKeyTerms(g.condition))))
        guards == findGuardChecks(m)
    IN  IF namedHelpers(expr) # {}
        THEN IF \A h \in namedHelpers(expr) : Includes(bodyText, h)
             THEN "VERIFIED" ELSE "VIOLATED"
        ELSE IF concernsStatus /\ helperPresent THEN "UNVERIFIED"
        ELSE IF \E k \in 1..Len(guards) :
                    overlap(guards[k]) > 0 /\ 2 * overlap(guards[k]) >= Len(terms)
        THEN "VERIFIED"
        ELSE IF Includes(bodyText, <<"Revert">>) THEN "UNVERIFIED"
        ELSE "VIOLATED"

\* C8: verifyPrecondition decides by the first matching step of: (1) the
\* expression names a known guard helper: VERIFIED if that helper is in the
\* body, else VIOLATED; (2) the expression concerns status/state and a
\* known guard helper is in the body: UNVERIFIED; (3) the key terms of the
\* expression overlap those of a single guard by at least half: VERIFIED;
\* (4) the body has a revert marker: UNVERIFIED; (5) otherwise VIOLATED.
C8_PreconditionCascade ==
    Done => \A i \in 1..Len(results) :
        IsResultOn(results[i], {"pre", "requires"}) =>
            results[i].status =
                PreCascade(Trim(results[i].spec.expression),
                           methodNamed(results[i].spec.methodName))

\* the steps of the calls check as described, for a spec and a method
CallsCascade(callSpec, m) ==
    LET bodyText == getMethodBodyText(m)
        bareTarget == DropSuffix(DropPrefix(callSpec.target, <<"this", ".">>), <<".", "value">>)
        name == calledMethodName(callSpec.calledMethod)
    IN  IF \A k \in 1..Len(walkTree(m)) : ~IsCallSite(walkTree(m)[k])
        THEN "VIOLATED"
        ELSE IF ~Includes(bodyText, callSpec.target) /\ ~Includes(bodyText, bareTarget)
        THEN "VIOLATED"
        ELSE IF /\ name # <<>>
                /\ ~Includes(bodyText, name)
                /\ ~Includes(bodyText, <<"Selector">>)
        THEN "UNVERIFIED"
        ELSE IF /\ callSpec.expectation = <<"must", "-", "succeed">>
                /\ ~Includes(bodyText, <<".", "success">>)
                /\ ~Includes(bodyText, <<"Revert">>)
        THEN "VIOLATED"
        ELSE "VERIFIED"

testsSuccessFlag(m) == Includes(codeText(m), <<".", "success">>)

\* the method makes the external call the spec declares: a call site, the
\* target and the called method's name are in its code
makesDeclaredCall(callSpec, m) ==
    /\ \E k \in 1..Len(walkTree(m)) : IsCallSite(walkTree(m)[k])
    /\ Includes(codeText(m), callSpec.target)
    /\ Includes(codeText(m), calledMethodName(callSpec.calledMethod))

\* C10: a must-succeed @calls spec on a method that makes the declared call
\* is VIOLATED when the method never tests the success flag of the call
\* result, as BrokenVault.withdraw, whose only revert guards an input.
C10_UncheckedCallViolated ==
    Done => \A i \in 1..Len(results) :
        LET r == results[i] IN
        (/\ IsResultOn(r, {"calls"})
         /\ r.spec.expectation = <<"must", "-", "succeed">>
         /\ makesDeclaredCall(r.spec, methodNamed(r.spec.methodName))
         /\ ~testsSuccessFlag(methodNamed(r.spec.methodName)))
            => r.status = "VIOLATED"


\* the methods a transition names that the class does not declare
absentMethods(st) == {m \in Range(st.transition.methods) : ~hasMethod(m)}

\* C11: with the class found, every result about a state-transition spec is
\* UNVERIFIED or MISSING, and a state-transition spec has a MISSING result
\* exactly when some method it names is not declared in the class.
C11_TransitionStatuses ==
    (Done /\ ClassFound) =>
        /\ \A i \in 1..Len(results) :
               results[i].spec.tag = "state" => results[i].status \in {"UNVERIFIED", "MISSING"}
        /\ \A k \in 1..Len(contract.stateTransitions) :
               LET st == contract.stateTransitions[k]
               IN  (\E i \in 1..Len(resultsFor(st)) : resultsFor(st)[i].status = "MISSING")
                       <=> absentMethods(st) # {}


\* the bundles of the contract whose method the class does not declare
orphanBundles == {k \in 1..Len(contract.methods) : ~hasMethod(contract.methods[k].methodName)}

\* C12: with the class found, every spec of a bundle whose method the class
\* does not declare (access, preconditions, postconditions, calls, state
\* transitions, temporal) has a result, and all its results are MISSING.
C12_MethodNotFoundAllMissing ==
    (Done /\ ClassFound) =>
        \A k \in orphanBundles :
            \A i \in 1..Len(bundleSpecs(contract.methods[k])) :
                LET rs == resultsFor(bundleSpecs(contract.methods[k])[i])
                IN  rs # <<>> /\ \A j \in 1..Len(rs) : rs[j].status = "MISSING"


\* C13: with the class and every annotated method found, every spec of the
\* contract (invariants, domain constraints, the specs of every bundle, and
\* the state transitions of the contract, a malformed one included) has at
\* least one result.
C13_EverySpecHasResult ==
    (Done /\ ClassFound /\ orphanBundles = {}) =>
        \A i \in 1..Len(attachedSpecs(contract)) :
            resultsFor(attachedSpecs(contract)[i]) # <<>>


\* the constraint names the verifier knows
predefinedConstraints ==
    {Text.OpnetSelectorsSha256, Text.OpnetCsvTimelocks, Text.OpnetAddressTwoParams,
     Text.OpnetNoApprove}

\* C14: with the class found, a domain constraint whose name is not predefined
\* keeps its name as written and has exactly one result, UNVERIFIED; the
\* constraint csv-timelocks is UNVERIFIED whatever the class text holds.
C14_UnknownConstraintUnverified ==
    (Done /\ ClassFound) =>
        \A i \in 1..Len(contract.opnetConstraints) :
            LET s == contract.opnetConstraints[i]
                rs == resultsFor(s)
            IN  (Trim(s.expression) \notin predefinedConstraints
                     \/ Trim(s.expression) = Text.OpnetCsvTimelocks) =>
                    /\ s.constraint = Trim(s.expression)
                    /\ Len(rs) = 1
                    /\ rs[1].status = "UNVERIFIED"
                    /\ rs[1].spec.constraint = Trim(s.expression)

\* an unknown constraint name has been reported over a class text that uses
\* .approve( and a hardcoded selector
C14_Witness ==
    /\ Done /\ ClassFound
    /\ \E i \in 1..Len(results) :
           /\ results[i].spec.tag = "opnet"
           /\ results[i].spec.constraint \notin predefinedConstraints
           /\ results[i].status = "UNVERIFIED"
    /\ hasApprove(getClassText(theClass))
    /\ hasHardcodedSelector(getClassText(theClass))


\* the number of results of the report with a status
countOf(status) ==
    Cardinality({i \in 1..Len(report.results) : report.results[i].status = status})

\* C15: in the report verifyContract returns, summary.total is the number of
\* results, each of verified / unverified / violated / missing is the number
\* of results with that status, and the four add up to the total.
C15_SummaryCounts ==
    Done =>
        /\ report.summary.total = Len(report.results)
        /\ report.summary.verified = countOf("VERIFIED")
        /\ report.summary.unverified = countOf("UNVERIFIED")
        /\ report.summary.violated = countOf("VIOLATED")
        /\ report.summary.missing = countOf("MISSING")
        /\ report.summary.verified + report.summary.unverified
               + report.summary.violated + report.summary.missing = report.summary.total

\* a report in which all four statuses occur
C15_Witness ==
    /\ Done
    /\ \A status \in {"VERIFIED", "UNVERIFIED", "VIOLATED", "MISSING"} : countOf(status) > 0
    /\ report.summary.total >= 5


\* some result of some report has the status
someResult(status) ==
    \E i \in 1..Len(reports) :
        \E j \in 1..Len(reports[i].results) : reports[i].results[j].status = status

\* C16: the verify command exits with 2 when parsing or verification throws,
\* with 1 when it ends and some result of some report is VIOLATED, and with 0
\* when it ends otherwise (no specifications found, or only VERIFIED,
\* UNVERIFIED and MISSING results); it has no exit code before it ends.
C16_ExitCode ==
    /\ pc = "failed" => exitCode = 2
    /\ pc = "exited" => exitCode = IF someResult("VIOLATED") THEN 1 ELSE 0
    /\ pc \notin {"failed", "exited"} => exitCode = -1

\* the command has exited with 1 over two contracts, the first of which has
\* MISSING and UNVERIFIED results and no VIOLATED one
C16_Witness ==
    /\ pc = "exited" /\ exitCode = 1 /\ Len(reports) = 2
    /\ reports[1].summary.violated = 0
    /\ reports[1].summary.missing > 0 /\ reports[1].summary.unverified > 0


callsSpecs ==
    {s \in {attachedSpecs(contract)[k] : k \in 1..Len(attachedSpecs(contract))} :
        s.tag = "calls"}

firstColon(t) == CHOOSE i \in 1..Len(t) : t[i] = ":" /\ \A j \in 1..(i - 1) : t[j] # ":"

arrowsOf(t) == {j \in 1..(Len(t) - 1) : t[j] = "-" /\ t[j + 1] = ">"}

lastArrow(t) == CHOOSE j \in arrowsOf(t) : \A l \in arrowsOf(t) : l <= j

\* the shape "target : calledMethod -> expectation": a colon with text before
\* it and an arrow after it with text on both sides of the arrow
callsShape(t) ==
    /\ \E i \in 2..Len(t) : t[i] = ":"
    /\ firstColon(t) >= 2
    /\ \E j \in arrowsOf(t) : j >= firstColon(t) + 2 /\ j + 2 <= Len(t)

\* C19: a @calls expression is split at its first ":" and its last "->"; an
\* expression without that shape gives the whole trimmed text as target and
\* an empty calledMethod and expectation.
C19_CallsSplit ==
    \A s \in callsSpecs :
        LET t == Trim(s.expression)
        IN  IF callsShape(t)
            THEN /\ s.target = Trim(SubSeq(t, 1, firstColon(t) - 1))
                 /\ s.calledMethod = Trim(SubSeq(t, firstColon(t) + 1, lastArrow(t) - 1))
                 /\ s.expectation = Trim(SubSeq(t, lastArrow(t) + 2, Len(t)))
            ELSE s.target = t /\ s.calledMethod = <<>> /\ s.expectation = <<>>


\* the comment lines before the methods of the class, trimmed, each with its
\* line number
docLines ==
    UNION {{[text |-> Trim(sourceFile[1].methods[i].doc[k]),
             line |-> sourceFile[1].methods[i].docLine + k - 1] :
               k \in 1..Len(sourceFile[1].methods[i].doc)} :
           i \in {j \in 1..Len(sourceFile[1].methods) :
                     "doc" \in DOMAIN sourceFile[1].methods[j]}}

\* the text of an annotation line after "@<tag>" and the white space behind it
afterTag(t) ==
    LET at == CHOOSE k \in 1..Len(t) : t[k] = "@" /\ \A j \in 1..(k - 1) : t[j] # "@"
    IN  SubSeq(t, at + 3, Len(t))

\* the places of "//" in a text
slashesOf(t) == {q \in 1..Len(t) : t[q] = "//"}

lastSlashes(t) == CHOOSE q \in slashesOf(t) : \A r \in slashesOf(t) : r <= q

\* C20: the expression of an annotation is the text after the tag up to the
\* last "//" of its line and the comment is the text after that "//"; earlier
\* "//" stay in the expression.
C20_ExpressionUpToLastSlashes ==
    \A k \in 1..Len(attachedSpecs(contract)) :
        LET s == attachedSpecs(contract)[k]
        IN  \A d \in docLines :
                d.line = s.line =>
                    LET rest == afterTag(d.text)
                    IN  IF slashesOf(rest) = {}
                        THEN s.expression = Trim(rest) /\ s.comment = <<>>
                        ELSE /\ s.expression = Trim(SubSeq(rest, 1, lastSlashes(rest) - 1))
                             /\ s.comment = Trim(SubSeq(rest, lastSlashes(rest) + 1, Len(rest)))


\* the when-clauses of a method list: "[when", white space and a condition
\* up to a closing "]" at the end
whenClauses(rest) ==
    {i \in 1..(Len(rest) - 4) :
        /\ rest[i] = "[" /\ rest[i + 1] = "when" /\ IsSpace(rest[i + 2])
        /\ rest[Len(rest)] = "]"}

\* the method names of a comma-separated list: each item trimmed, a trailing
\* "()" removed, empty items dropped
methodNames(list) ==
    LET items == SplitOn(list, ",", <<>>)
        names == [i \in 1..Len(items) |-> DropSuffix(Trim(items[i]), <<"(", ")">>)]
        kept == SelectSeq(names, LAMBDA n : n # <<>>)
    IN  [i \in 1..Len(kept) |-> Join(kept[i])]

\* C21: an expression "from -> to : m1(), m2() [when cond]" parses to the
\* trimmed texts around its first "->" and the first ":" after it, the method
\* names of the list and the condition of the when-clause, if any; every
\* other expression parses to "?" states, no methods and the whole trimmed
\* text as condition.
C21_TransitionParse ==
    \A k \in 1..Len(contract.stateTransitions) :
        LET s == contract.stateTransitions[k]
            t == Trim(s.expression)
            a == CHOOSE j \in arrowsOf(t) : \A l \in arrowsOf(t) : j <= l
            colons == {c \in 1..Len(t) : t[c] = ":" /\ c > a + 1}
            c == CHOOSE i \in colons : \A j \in colons : i <= j
            shaped == /\ arrowsOf(t) # {} /\ a >= 2
                      /\ colons # {} /\ c >= a + 3 /\ c < Len(t)
            rest == Trim(SubSeq(t, c + 1, Len(t)))
            w == CHOOSE i \in whenClauses(rest) : \A j \in whenClauses(rest) : i <= j
        IN  IF ~shaped
            THEN s.transition = [fromState |-> <<"?">>, toState |-> <<"?">>,
                                 methods |-> <<>>, condition |-> t]
            ELSE /\ s.transition.fromState = Trim(SubSeq(t, 1, a - 1))
                 /\ s.transition.toState = Trim(SubSeq(t, a + 2, c - 1))
                 /\ IF whenClauses(rest) = {}
                    THEN /\ s.transition.methods = methodNames(rest)
                         /\ s.transition.condition = <<>>
                    ELSE /\ s.transition.methods = methodNames(Trim(SubSeq(rest, 1, w - 1)))
                         /\ s.transition.condition = Trim(SubSeq(rest, w + 3, Len(rest) - 1))


\* the annotations before the first statement of the file, when that
\* statement is no class
fileAnnotations ==
    IF sourceFile = <<>> \/ "methods" \in DOMAIN sourceFile[1] THEN <<>>
    ELSE parseAnnotationsFromNode(sourceFile[1].doc, sourceFile[1].docLine)

\* whether the i-th contract of the tree holds a typed spec of annotation a
\* in the list lists of its tag
holdsAnnotation(i, a) ==
    LET c == specTree[i].contract
        list == IF a.tag = "invariant" THEN c.invariants
                ELSE IF a.tag = "opnet" THEN c.opnetConstraints ELSE <<>>
    IN  \E k \in 1..Len(list) :
            list[k].tag = a.tag /\ list[k].line = a.line /\ list[k].expression = a.expression

\* whether the i-th contract of the tree holds any spec written on a line
holdsLine(i, line) ==
    \E k \in 1..Len(attachedSpecs(specTree[i].contract)) :
        attachedSpecs(specTree[i].contract)[k].line = line

methodTransitions ==
    UNION {{[st |-> contract.methods[i].stateTransitions[k],
             methodName |-> contract.methods[i].methodName] :
               k \in 1..Len(contract.methods[i].stateTransitions)} :
           i \in 1..Len(contract.methods)}

\* C23: a transition declared on a method is in the contract-level list as
\* well as in the list of its method bundle, and a pass over a class that
\* declares the method has exactly one result for it.
C23_PromotedTransitionOnce ==
    \A mt \in methodTransitions :
        /\ \E k \in 1..Len(contract.stateTransitions) : contract.stateTransitions[k] = mt.st
        /\ Done /\ ClassFound /\ hasMethod(mt.methodName) =>
               Cardinality({i \in 1..Len(results) : results[i].spec = mt.st}) = 1

\* a pass over a class that declares setFee, whose bundle declares a
\* transition: the transition is in both lists and has its one result
C23_Witness ==
    /\ Done /\ ClassFound
    /\ \E mt \in methodTransitions :
           /\ mt.methodName = "setFee" /\ hasMethod("setFee")
           /\ \E i \in 1..Len(results) : results[i].spec = mt.st


\* the guard helpers a precondition can name
guardHelperNames == {<<"ensure", "Owner">>, <<"only", "Deployer">>, <<"ensure", "Active">>}

\* C24: a precondition that names one of the guard helpers ensureOwner,
\* onlyDeployer and ensureActive is VERIFIED when the body of the method
\* contains that same name, and VIOLATED when it does not.
C24_SameGuardHelper ==
    Done => \A i \in 1..Len(results) :
        IsResultOn(results[i], {"pre", "requires"}) =>
            \A h \in guardHelperNames :
                Includes(Trim(results[i].spec.expression), h) =>
                    results[i].status =
                        IF Includes(getMethodBodyText(methodNamed(results[i].spec.methodName)), h)
                        THEN "VERIFIED" ELSE "VIOLATED"


\* whether the precondition of result r reaches the key-term step: its
\* expression names no guard helper, and is not a status or state expression
\* over a body that calls a guard helper
keyTermStep(r) ==
    LET expr == Trim(r.spec.expression)
        bodyText == getMethodBodyText(methodNamed(r.spec.methodName))
    IN  /\ \A h \in guardHelperNames : ~Includes(expr, h)
        /\ ~(/\ \E w \in {<<"status">>, <<"STATUS">>, <<"state">>} : Includes(expr, w)
             /\ \E h \in {<<"ensure", "Active">>, <<"ensure", "Owner">>, <<"require", "Active">>,
                          <<"require", "Status">>, <<"only", "Active">>, <<"only", "Deployer">>} :
                    Includes(bodyText, h))

\* the number of key terms of the expression, repeated ones counted each
\* time, that are among the key terms of the condition of a guard
commonTerms(expr, guard) ==
    Cardinality({i \in 1..Len(extractKeyTerms(expr)) :
                    \E j \in 1..Len(extractKeyTerms(guard.condition)) :
                        extractKeyTerms(guard.condition)[j] = extractKeyTerms(expr)[i]})

\* C25: in the key-term step a precondition is VERIFIED exactly when one
\* guard of the method shares with the expression at least one key term and
\* at least half of the expression's key terms, rounded up.
C25_KeyTermStep ==
    Done => \A i \in 1..Len(results) :
        IsResultOn(results[i], {"pre", "requires"}) /\ keyTermStep(results[i]) =>
            LET expr == Trim(results[i].spec.expression)
                guards == findGuardChecks(methodNamed(results[i].spec.methodName))
            IN  results[i].status = "VERIFIED" <=>
                    \E g \in 1..Len(guards) :
                        /\ commonTerms(expr, guards[g]) >= 1
                        /\ 2 * commonTerms(expr, guards[g]) >= Len(extractKeyTerms(expr))

\* a precondition with three key terms over two guards that share one term
\* each with it: together they reach half, no single guard does, and the
\* precondition is not VERIFIED
C25_Witness ==
    /\ Done
    /\ \E i \in 1..Len(results) :
           /\ IsResultOn(results[i], {"pre", "requires"}) /\ keyTermStep(results[i])
           /\ results[i].status # "VERIFIED"
           /\ LET expr == Trim(results[i].spec.expression)
                  guards == findGuardChecks(methodNamed(results[i].spec.methodName))
              IN  /\ Len(extractKeyTerms(expr)) = 3
                  /\ \E g, h \in 1..Len(guards) :
                         /\ g # h
                         /\ commonTerms(expr, guards[g]) = 1
                         /\ commonTerms(expr, guards[h]) = 1


\* whether the body of method m writes field f: an assignment to
\* this.<f>.value or a call of this.<f>.set among its syntax nodes
bodyWrites(m, f) ==
    \E w \in 1..Len(walkTree(m)) :
        \/ /\ walkTree(m)[w].type = "assign"
           /\ walkTree(m)[w].head = <<"this", ".">> \o f \o <<".", "value">>
        \/ /\ walkTree(m)[w].type = "call"
           /\ walkTree(m)[w].head = <<"this", ".">> \o f \o <<".", "set">>

\* the stored fields the postcondition of result r references and the
\* body of its method never writes
unwrittenFields(r) ==
    {f \in Range(r.spec.fieldReferences) :
        /\ \E i \in 1..Len(theClass.props) :
               IsStoredProp(theClass.props[i]) /\ theClass.props[i].name = f
        /\ ~bodyWrites(methodNamed(r.spec.methodName), f)}

\* C26: a postcondition other than `ensures CEI` that references a stored
\* field the method body never writes is UNVERIFIED, also when the body
\* reads the field, and also when its expression mentions the return value
\* and the body returns nothing.
C26_UnwrittenFieldUnverified ==
    Done => \A i \in 1..Len(results) :
        IsNonCeiResult(results[i]) /\ unwrittenFields(results[i]) # {} =>
            results[i].status = "UNVERIFIED"


\* the class declares a selector with a hardcoded literal
declaresSelectorLiteral ==
    \E i \in 1..Len(theClass.props) : theClass.props[i] = Prop.HardSelector

\* the class produces a selector with encodeSelector, in a property
\* initializer or in a method
callsEncodeSelector ==
    \/ \E i \in 1..Len(theClass.props) : theClass.props[i] = Prop.DepositSelector
    \/ \E i \in 1..Len(theClass.methods) :
           \E n \in 1..Len(walkTree(theClass.methods[i])) :
               /\ walkTree(theClass.methods[i])[n].type = "call"
               /\ walkTree(theClass.methods[i])[n].head = <<"encode", "Selector">>

\* C27: the constraint selectors-sha256 is never VERIFIED over a class that
\* declares a selector with a hardcoded literal; it is VIOLATED when the
\* class has such a literal and no encodeSelector call, and UNVERIFIED when
\* it has neither.
C27_SelectorsSha256 ==
    (Done /\ ClassFound) => \A i \in 1..Len(results) :
        (results[i].spec.tag = "opnet"
            /\ results[i].spec.constraint = Text.OpnetSelectorsSha256) =>
            /\ declaresSelectorLiteral => results[i].status # "VERIFIED"
            /\ declaresSelectorLiteral /\ ~callsEncodeSelector =>
                   results[i].status = "VIOLATED"
            /\ ~declaresSelectorLiteral /\ ~callsEncodeSelector =>
                   results[i].status = "UNVERIFIED"


\* the annotations in the leading comment of the s-th statement of the file
leadingAnnotations(s) ==
    parseAnnotationsFromNode(sourceFile[s].doc, sourceFile[s].docLine)

\* how many typed specs of annotation a the contract of class className
\* holds in the list of its tag
copiesOf(className, a) ==
    LET held(c) ==
            LET list == IF a.tag = "invariant" THEN c.invariants ELSE c.opnetConstraints
            IN  Cardinality({k \in 1..Len(list) :
                    list[k].line = a.line /\ list[k].expression = a.expression})
    IN  IF \E i \in 1..Len(specTree) : specTree[i].contract.className = className
        THEN held(specTree[CHOOSE i \in 1..Len(specTree) :
                               specTree[i].contract.className = className].contract)
        ELSE 0

\* C28: an invariant or a domain constraint written in the leading comment
\* of a class is held exactly once in the list of its tag of the contract of
\* that class, whether the class is the first statement of the file or not.
C28_ClassAnnotationOnce ==
    \A s \in 1..Len(sourceFile) :
        "methods" \in DOMAIN sourceFile[s] =>
            \A n \in 1..Len(leadingAnnotations(s)) :
                leadingAnnotations(s)[n].tag \in {"invariant", "opnet"} =>
                    copiesOf(sourceFile[s].name, leadingAnnotations(s)[n]) = 1


\* whether annotation a is kept by the tree: as a typed spec of its tag and
\* line in some contract, or in the unassociated list
keptAnnotation(a) ==
    \/ \E k \in 1..Len(unassociated) : unassociated[k] = a
    \/ \E i \in 1..Len(specTree) :
           \E k \in 1..Len(attachedSpecs(specTree[i].contract)) :
               /\ attachedSpecs(specTree[i].contract)[k].tag = a.tag
               /\ attachedSpecs(specTree[i].contract)[k].line = a.line

\* the annotations in the leading comments of the methods of a class
methodAnnotations(classDecl) ==
    Flatten([i \in 1..Len(classDecl.methods) |->
                parseAnnotationsFromNode(classDecl.methods[i].doc,
                                         classDecl.methods[i].docLine)])

\* C29: every annotation in the leading comment of the first statement of
\* the file, of a class or of a method is kept by the tree, as a typed spec
\* of some contract or as an unassociated annotation.
C29_NoAnnotationLost ==
    \A s \in 1..Len(sourceFile) :
        /\ (s = 1 \/ "methods" \in DOMAIN sourceFile[s]) =>
               \A n \in 1..Len(leadingAnnotations(s)) :
                   keptAnnotation(leadingAnnotations(s)[n])
        /\ "methods" \in DOMAIN sourceFile[s] =>
               \A n \in 1..Len(methodAnnotations(sourceFile[s])) :
                   keptAnnotation(methodAnnotations(sourceFile[s])[n])


\* C30: a computed CoverageInfo keeps its counts within their totals: the
\* specified methods are at most the total methods, the methods list has one
\* entry per counted method, and the fields covered by invariants are at
\* most the stored fields.
C30_CoverageWithinTotals ==
    pc = "covered" =>
        /\ 0 <= coverage.specifiedMethods
        /\ coverage.specifiedMethods <= coverage.totalMethods
        /\ Len(coverage.methods) = coverage.totalMethods
        /\ coverage.invariantCoveredFields <= coverage.totalFields

====
